---- MODULE Spec2Model ----
(***************************************************************************)
(* PharmaForge: the Golden Workflow orchestrator (app/api/risk_findings.py) *)
(* and the Watchtower feed sync engine                                      *)
(* (app/services/watchtower/feed_service.py), modelled as state machines    *)
(* over the committed database tables and the per-request sessions.         *)
(***************************************************************************)
EXTENDS Integers, Sequences, FiniteSets, TLC

\* ------------------------------------------------------------------ bounds
NumOrgs == 2
MaxEvidence == 1
MaxRuns == 2
MaxExports == 1
NumProcs == 2
MaxSyncAll == 1
MaxSyncCalls == 2
MaxBatch == 2
MaxFeedRows == 2
MaxDays == 2

Orgs == 1..NumOrgs
EvidenceIds == 1..MaxEvidence
RunIds == 0..MaxRuns

\* ------------------------------------------------------- strings as data
\* Names are sequences of characters; Lower is str.lower() on that alphabet.
LowerChar(c) == IF c = "A" THEN "a" ELSE IF c = "B" THEN "b" ELSE c

Lower(s) == [i \in 1..Len(s) |-> LowerChar(s[i])]

\* a in b (Python substring test)
IsSubstr(a, b) ==
    \E k \in 0..(Len(b) - Len(a)) : \A i \in 1..Len(a) : b[k + i] = a[i]

\* ------------------------------------------------------ uploaded documents
\* A document is what text extraction makes of it: the keyword classes the
\* lower-cased text contains, the company-name candidates the patterns find
\* in text and filename, and the outcome of extract_text_from_file.
AcmeCand == <<"A", "B", "a", "b">>
OtherCand == <<"B", "b", "b", "b">>

Docs ==
    { [extract |-> "text", kw |-> {"temperature", "cgmp", "supplier"}, cands |-> <<AcmeCand>>],
      [extract |-> "text", kw |-> {}, cands |-> <<OtherCand>>],
      [extract |-> "empty", kw |-> {}, cands |-> <<>>],
      [extract |-> "bracket", kw |-> {}, cands |-> <<>>] }

\* Tenant vendor registry (Vendor rows; vendor CRUD is outside the model).
Vendors ==
    << [id |-> 1, org |-> 1, name |-> <<"a", "b", "a", "b", "A">>, risk_level |-> "high"] >>

\* Unacknowledged WatchtowerAlert rows per organization.
ActiveAlerts(org) == IF org = 1 THEN 1 ELSE 0

VARIABLES
    evidence,    \* evidence table: row id = index
    runs,        \* committed workflow_runs rows
    runSeq,      \* workflow_runs id sequence
    findings,    \* committed risk_findings_records rows
    plans,       \* committed action_plans rows
    audit,       \* committed audit_logs rows
    wf,          \* the workflow request in flight (its session)
    resp,        \* the response of the last finished workflow or export request
    items,       \* committed watchtower_items rows: how many rows hold each key
    syncStatus,  \* watchtower_sync_status rows, by source
    cache,       \* the Redis value under each provider's cache key
    procs,       \* the sync calls in flight: position, session, result
    lastHttp,    \* each provider object's last_http_status attribute
    clock,       \* datetime.utcnow(), as a logical clock
    syncCalls,   \* how many sync calls have started
    syncAll,     \* the sync_all_providers calls in flight, by process
    fetch,       \* a provider fetch in flight: its attempts against the endpoints
    parsed,      \* the feed items the adapters have made of upstream records and handed on
    itemRows,    \* committed watchtower_items rows: the content revision of each row, by key
    calls        \* the last call of a stateless helper: its name, arguments and result

wfvars == <<evidence, runs, runSeq, findings, plans, audit, wf, resp>>

syncvars == <<items, syncStatus, cache, procs, lastHttp, clock, syncCalls, syncAll, fetch,
              itemRows>>

vars == <<evidence, runs, runSeq, findings, plans, audit, wf, resp,
          items, syncStatus, cache, procs, lastHttp, clock, syncCalls, syncAll, fetch,
          parsed, itemRows, calls>>

\* --------------------------------------------------- findings extractor
Finding(title, severity, cfr) == [title |-> title, severity |-> severity, cfr_refs |-> cfr]

AppendIf(s, cond, x) == IF cond THEN Append(s, x) ELSE s

\* The slice keeps the whole list.
Cap_Off(s, n) == s

Cap(s, n) == IF Len(s) > n THEN SubSeq(s, 1, n) ELSE s

KeywordFindings(kw) ==
    LET f1 == AppendIf(<<>>, "temperature" \in kw,
                 Finding("Cold Chain Storage Compliance Gap", "HIGH", <<"21 CFR 211.142", "21 CFR 211.150">>))
        f2 == AppendIf(f1, "cgmp" \in kw,
                 Finding("cGMP Documentation Review Required", "MEDIUM", <<"21 CFR 210", "21 CFR 211">>))
        f3 == AppendIf(f2, "recall" \in kw,
                 Finding("Product Quality Deviation Detected", "HIGH", <<"21 CFR 211.192", "21 CFR Part 7">>))
        f4 == AppendIf(f3, "supplier" \in kw,
                 Finding("Supplier Qualification Assessment Needed", "MEDIUM", <<"21 CFR 211.84", "21 CFR 211.80">>))
        f5 == AppendIf(f4, "labeling" \in kw,
                 Finding("Labeling Compliance Check Required", "MEDIUM", <<"21 CFR 211.122", "21 CFR 211.125", "21 CFR 211.130">>))
        f6 == AppendIf(f5, "serialization" \in kw,
                 Finding("DSCSA Serialization Compliance Required", "HIGH", <<"DSCSA Section 582">>))
    IN  f6

\* A findings extractor that forgets the two general findings.
GenerateMockFindings_NoPad(kw) == Cap(KeywordFindings(kw), 10)

GenerateMockFindings(kw) ==
    LET f6 == KeywordFindings(kw)
        f7 == AppendIf(f6, Len(f6) < 3,
                 Finding("General Document Compliance Review", "LOW", <<"21 CFR 211">>))
        f8 == AppendIf(f7, Len(f7) < 3,
                 Finding("Record Retention Verification", "LOW", <<"21 CFR 211.180">>))
    IN  Cap(f8, 10)

\* No helper has been called yet.
NoCall == [fn |-> "none", args |-> <<>>, result |-> <<>>]

\* ------------------------------------------------------- action planner
Action(title, priority, owner, deadline) ==
    [title |-> title, priority |-> priority, owner |-> owner, deadline |-> deadline]

GenerateActionPlan(fs, vendor_risks) ==
    LET IsHigh(f) == f.severity = "HIGH"
        IsMedium(f) == f.severity = "MEDIUM"
        high == Cap(SelectSeq(fs, IsHigh), 3)
        medium == Cap(SelectSeq(fs, IsMedium), 2)
        a1 == [i \in 1..Len(high) |->
                 Action(<<"Investigate", high[i].title>>, "HIGH", "Quality Assurance Lead", "Within 48 hours")]
        a2 == [i \in 1..Len(medium) |->
                 Action(<<"Review", medium[i].title>>, "MEDIUM", "Regulatory Affairs", "Within 7 days")]
        a3 == AppendIf(a1 \o a2, Len(vendor_risks) > 0,
                 Action(<<"Vendor Risk Mitigation">>, "MEDIUM", "Supply Chain Manager", "Within 14 days"))
        actions == Append(a3,
                 Action(<<"Document Remediation Actions">>, "LOW", "Documentation Specialist", "Ongoing"))
    IN  [ top_actions |-> actions,
          owners |-> {actions[i].owner : i \in 1..Len(actions)},
          deadlines |-> {actions[i].deadline : i \in 1..Len(actions)},
          n_findings |-> Len(fs),
          n_high |-> Len(SelectSeq(fs, IsHigh)),
          vendor_note |-> Len(vendor_risks) > 0 ]

\* --------------------------------------------------- correlation builder
VendorMatch(vendor_id, name, basis, risk_level) ==
    [vendor_id |-> vendor_id, name |-> name, match_basis |-> basis, risk_level |-> risk_level]

\* list(candidates)[:10]; finding entities are always empty lists
ExtractVendorCandidates(doc) == Cap(doc.cands, 10)

CandidateMatches(c, v) ==
    IsSubstr(Lower(c), Lower(v.name)) \/ IsSubstr(Lower(v.name), Lower(c))

MatchedVendors(cands, org) ==
    LET Hit(v) == v.org = org /\ \E i \in 1..Len(cands) : CandidateMatches(cands[i], v)
        hits == SelectSeq(Vendors, Hit)
    IN  [i \in 1..Len(hits) |->
            VendorMatch(hits[i].id, hits[i].name, "text_content", hits[i].risk_level)]

RECURSIVE AddUnmatched(_, _)
AddUnmatched(cands, vm) ==
    IF cands = <<>> THEN vm
    ELSE LET c == Head(cands)
             already == \E i \in 1..Len(vm) : IsSubstr(Lower(c), Lower(vm[i].name))
         IN  AddUnmatched(Tail(cands),
                 IF ~already /\ Len(c) > 3
                 THEN Append(vm, VendorMatch(0, c, "unmatched_candidate", "none"))
                 ELSE vm)

Narrative(fs, active_alerts, vendor_matches, total_feed_items) ==
    LET IsHigh(f) == f.severity = "HIGH"
        IsMatched(vm) == vm.vendor_id # 0
        IsRisky(vm) == vm.vendor_id # 0 /\ vm.risk_level \in {"high", "critical"}
        n_high == Len(SelectSeq(fs, IsHigh))
        n_matched == Len(SelectSeq(vendor_matches, IsMatched))
        n_risky == Len(SelectSeq(vendor_matches, IsRisky))
        b1 == AppendIf(<<>>, n_high > 0, [bullet |-> "high_findings", n |-> n_high])
        b2 == AppendIf(b1, active_alerts > 0, [bullet |-> "active_alerts", n |-> active_alerts])
        b3 == AppendIf(b2, n_matched > 0,
                 IF n_risky > 0 THEN [bullet |-> "risky_vendors", n |-> n_risky]
                 ELSE [bullet |-> "tracked_vendors", n |-> n_matched])
        b4 == AppendIf(b3, total_feed_items > 0, [bullet |-> "feed_items", n |-> total_feed_items])
    IN  AppendIf(b4, b4 = <<>>, [bullet |-> "no_correlations", n |-> 0])

Healthy(s) ==
    s.last_error_at = 0 \/ (s.last_success_at # 0 /\ s.last_success_at > s.last_error_at)

GenerateCorrelation(eid, doc, fs, org, total_feed_items, statuses, now) ==
    LET cands == ExtractVendorCandidates(doc)
        vm == AddUnmatched(Cap(cands, 5), MatchedVendors(cands, org))
    IN  [ evidence_id |-> eid,
          watchtower_snapshot |->
              [ total_feed_items |-> total_feed_items,
                active_alerts |-> ActiveAlerts(org),
                sources_status |->
                    UNION { { [source |-> s, last_success_at |-> statuses[s][i].last_success_at,
                               healthy |-> Healthy(statuses[s][i])] :
                              i \in 1..Len(statuses[s]) } : s \in DOMAIN statuses },
                timestamp |-> now ],
          vendor_matches |-> vm,
          narrative |-> Narrative(fs, ActiveAlerts(org), vm, total_feed_items) ]

\* JSON column default of ActionPlanRecord.correlation_data
EmptyDict == [x \in {} |-> 0]

\* ---------------------------------------------------- evidence ingestion
EvidenceRow(org, status, has_text, doc, source) ==
    [org |-> org, status |-> status, has_text |-> has_text, doc |-> doc, source |-> source]

AuditEntry(org, action, entity_type, entity_id) ==
    [org |-> org, action |-> action, entity_type |-> entity_type, entity_id |-> entity_id]

\* upload_evidence: PENDING and PROCESSING are only flushed; the commit stores
\* PROCESSED (text, or no text at all) or FAILED (an "[...]" extraction error).
UploadStatus(doc) == IF doc.extract \in {"bracket", "exception"} THEN "failed" ELSE "processed"

\* PROCESSING is never assigned.
UploadStatusPath_NoProcessing(doc) == <<"pending", UploadStatus(doc)>>

\* upload_evidence: the values Evidence.status takes in the handler's session,
\* from the constructor to the commit
UploadStatusPath(doc) == <<"pending", "processing", UploadStatus(doc)>>

UploadHasText(doc) == doc.extract \in {"text", "bracket"}

UploadEvidence(org, doc) ==
    /\ Len(evidence) < MaxEvidence
    /\ ~\E i \in 1..Len(evidence) :
           evidence[i].org = org /\ evidence[i].doc = doc /\ evidence[i].source # "watchtower"
    /\ evidence' = Append(evidence,
           EvidenceRow(org, UploadStatusPath(doc)[Len(UploadStatusPath(doc))],
                       UploadHasText(doc), doc, "copilot"))
    /\ audit' = Append(audit, AuditEntry(org, "evidence_uploaded", "evidence", Len(evidence) + 1))
    /\ UNCHANGED <<runs, runSeq, findings, plans, wf, resp>>
    /\ UNCHANGED <<syncvars, parsed, calls>>

\* _create_watchtower_evidence: the row keeps the column default PENDING.
CreateWatchtowerEvidence(org, doc) ==
    /\ Len(evidence) < MaxEvidence
    /\ doc.extract \in {"text", "empty"}
    /\ ~\E i \in 1..Len(evidence) :
           evidence[i].org = org /\ evidence[i].doc = doc /\ evidence[i].source = "watchtower"
    /\ evidence' = Append(evidence,
           EvidenceRow(org, "pending", doc.extract = "text", doc, "watchtower"))
    /\ UNCHANGED <<runs, runSeq, findings, plans, audit, wf, resp>>
    /\ UNCHANGED <<syncvars, parsed, calls>>

\* A row whose processing has not finished (the rows the workflow tests insert).
InsertProcessingEvidence(org, doc) ==
    /\ Len(evidence) < MaxEvidence
    /\ doc.extract = "empty"
    /\ evidence' = Append(evidence, EvidenceRow(org, "processing", FALSE, doc, "copilot"))
    /\ UNCHANGED <<runs, runSeq, findings, plans, audit, wf, resp>>
    /\ UNCHANGED <<syncvars, parsed, calls>>

\* ------------------------------------------------- workflow orchestrator
Response(op, org, eid, rid, kind, error, run_id) ==
    [op |-> op, org |-> org, eid |-> eid, rid |-> rid, kind |-> kind,
     error |-> error, run_id |-> run_id]

IdleWf == [pc |-> "idle", org |-> 0, eid |-> 0, run_id |-> 0]

EvidenceFound(org, eid) == eid \in 1..Len(evidence) /\ evidence[eid].org = org

\* The checks without the one for evidence still being processed.
WorkflowPrecondition_NoProcessing(org, eid) ==
    IF ~EvidenceFound(org, eid) THEN "evidence_not_found"
    ELSE IF evidence[eid].status = "pending" THEN "evidence_pending"
    ELSE IF evidence[eid].status = "failed" THEN "evidence_failed"
    ELSE IF ~evidence[eid].has_text /\ evidence[eid].status # "processing" THEN "evidence_empty"
    ELSE "ok"

\* run_complete_workflow, the checks before the run row is created
WorkflowPrecondition(org, eid) ==
    IF ~EvidenceFound(org, eid) THEN "evidence_not_found"
    ELSE IF evidence[eid].status = "pending" THEN "evidence_pending"
    ELSE IF evidence[eid].status = "processing" THEN "evidence_processing"
    ELSE IF evidence[eid].status = "failed" THEN "evidence_failed"
    ELSE IF ~evidence[eid].has_text THEN "evidence_empty"
    ELSE "ok"

WorkflowRefuse(org, eid) ==
    /\ wf.pc = "idle"
    /\ WorkflowPrecondition(org, eid) # "ok"
    /\ resp' = Response("workflow", org, eid, 0, "refused", WorkflowPrecondition(org, eid), 0)
    /\ UNCHANGED <<evidence, runs, runSeq, findings, plans, audit, wf>>
    /\ UNCHANGED <<syncvars, parsed, calls>>

\* The primary key the flush draws for the new run row: the next value of the
\* table's sequence. NextRunId_ByEvidence keys the run by its evidence instead.
NextRunId_ByEvidence(eid) == eid

NextRunId(eid) == runSeq

\* db.add(workflow_run); db.flush(): the id is drawn, the row is not committed
WorkflowCreateRun(org, eid) ==
    /\ wf.pc = "idle"
    /\ runSeq <= MaxRuns
    /\ WorkflowPrecondition(org, eid) = "ok"
    /\ wf' = [pc |-> "running", org |-> org, eid |-> eid, run_id |-> NextRunId(eid)]
    /\ runSeq' = runSeq + 1
    /\ resp' = Response("workflow", org, eid, 0, "in_flight", "none", NextRunId(eid))
    /\ UNCHANGED <<evidence, runs, findings, plans, audit>>
    /\ UNCHANGED <<syncvars, parsed, calls>>

\* Where an exception strikes: "py_*" is a Python exception raised at that
\* step (the session stays usable), "db_*" a database error: the transaction
\* is lost, and the handler's own commit either raises again (the session
\* still awaits its rollback) or commits nothing ("db_commit_lost": the
\* failed commit has already rolled back and expunged the run row).
PyFaults == {"py_findings", "py_correlation", "py_plan", "py_audit"}

DbFaults == {"db_correlation", "db_commit", "db_commit_lost"}

WorkflowFaults == {"none"} \cup PyFaults \cup DbFaults

RunRow(w, status, error, nf, nc, na) ==
    [id |-> w.run_id, org |-> w.org, evidence_id |-> w.eid, status |-> status,
     error_message |-> error, findings_count |-> nf, correlations_count |-> nc,
     actions_count |-> na, completed_at |-> "set"]

\* The finding rows stored without their CFR references
FindingRows_NoCfr(w, fs) ==
    [i \in 1..Len(fs) |->
        [run_id |-> w.run_id, evidence_id |-> w.eid, title |-> fs[i].title,
         severity |-> fs[i].severity, cfr_refs |-> <<>>]]

FindingRows(w, fs) ==
    [i \in 1..Len(fs) |->
        [run_id |-> w.run_id, evidence_id |-> w.eid, title |-> fs[i].title,
         severity |-> fs[i].severity, cfr_refs |-> fs[i].cfr_refs]]

PlanRow(w, plan, correlation) ==
    [run_id |-> w.run_id, evidence_id |-> w.eid, actions |-> plan.top_actions,
     owners |-> plan.owners, deadlines |-> plan.deadlines, correlation_data |-> correlation]

CompletedAudit_Missing(w) == <<>>

CompletedAudit(w) == <<AuditEntry(w.org, "workflow_run_completed", "workflow_run", w.run_id)>>

TotalFeedItems == LET RECURSIVE Sum(_)
                      Sum(K) == IF K = {} THEN 0
                                ELSE LET k == CHOOSE x \in K : TRUE
                                     IN  items[k] + Sum(K \ {k})
                  IN  Sum(DOMAIN items)

\* INSERT of the run row at commit
InsertRun_Upsert(rs, run) == {r \in rs : r.evidence_id # run.evidence_id} \cup {run}

InsertRun(rs, run) == rs \cup {run}

\* The objects the session holds when the fault strikes (all of them for "none").
WorkflowSession(w, fault) ==
    LET doc == evidence[w.eid].doc
        fs == GenerateMockFindings(doc.kw)
        corr == GenerateCorrelation(w.eid, doc, fs, w.org, TotalFeedItems, syncStatus,
                                    clock)
        plan == GenerateActionPlan(fs, corr.vendor_matches)
        gotFindings == fault # "py_findings"
        gotCorr == fault \notin {"py_findings", "py_correlation", "db_correlation"}
        gotPlan == fault \notin {"py_findings", "py_correlation", "db_correlation", "py_plan"}
    IN  [ findings |-> IF gotFindings THEN FindingRows(w, fs) ELSE <<>>,
          findings_count |-> IF gotFindings THEN Len(fs) ELSE 0,
          correlations_count |-> IF gotCorr THEN Len(corr.vendor_matches) ELSE 0,
          plans |-> IF gotPlan THEN <<PlanRow(w, plan, corr)>> ELSE <<>>,
          actions_count |-> IF gotPlan THEN Len(plan.top_actions) ELSE 0,
          audit |-> IF fault \in {"none", "db_commit", "db_commit_lost"}
                    THEN CompletedAudit(w) ELSE <<>> ]

\* run_complete_workflow from the try block to the response
WorkflowExecute(fault) ==
    /\ wf.pc = "running"
    /\ LET s == WorkflowSession(wf, fault)
       IN  IF fault = "none"
           THEN /\ runs' = InsertRun(runs, RunRow(wf, "success", "none", s.findings_count,
                                                  s.correlations_count, s.actions_count))
                /\ findings' = findings \o s.findings
                /\ plans' = plans \o s.plans
                /\ audit' = audit \o s.audit
                /\ resp' = Response("workflow", wf.org, wf.eid, 0, "success", "none", wf.run_id)
           ELSE IF fault \in PyFaults
           THEN /\ runs' = InsertRun(runs, RunRow(wf, "failed", fault, s.findings_count,
                                                  s.correlations_count, s.actions_count))
                /\ findings' = findings \o s.findings
                /\ plans' = plans \o s.plans
                /\ audit' = audit \o s.audit
                /\ resp' = Response("workflow", wf.org, wf.eid, 0, "failed", fault, wf.run_id)
           ELSE /\ resp' = Response("workflow", wf.org, wf.eid, 0,
                                     IF fault = "db_commit_lost" THEN "failed" ELSE "raised",
                                     fault, wf.run_id)
                /\ UNCHANGED <<runs, findings, plans, audit>>
    /\ wf' = IdleWf
    /\ clock' = clock + 1
    /\ UNCHANGED <<evidence, runSeq>>
    /\ UNCHANGED <<items, syncStatus, cache, procs, lastHttp, syncCalls, syncAll, fetch,
                   parsed, itemRows, calls>>

\* ------------------------------------------------ export validator
ExportedCount == Cardinality({i \in 1..Len(audit) : audit[i].action = "audit_packet_exported"})

RunsOf(org, eid) == {r \in runs : r.org = org /\ r.evidence_id = eid}

\* Without run_id the latest run is taken, whatever its status.
SelectedRuns_LatestAny(org, eid, rid) ==
    IF rid # 0
    THEN {r \in RunsOf(org, eid) : r.id = rid}
    ELSE {r \in RunsOf(org, eid) : \A q \in RunsOf(org, eid) : q.id <= r.id}

\* The run named by run_id is looked up by its id alone.
SelectedRuns_ByIdOnly(org, eid, rid) ==
    IF rid # 0
    THEN {r \in runs : r.id = rid}
    ELSE {r \in RunsOf(org, eid) :
            /\ r.status = "success"
            /\ \A q \in RunsOf(org, eid) : q.status = "success" => q.id <= r.id}

\* The run the export works on: the one named by run_id, or the latest successful.
SelectedRuns(org, eid, rid) ==
    IF rid # 0
    THEN {r \in RunsOf(org, eid) : r.id = rid}
    ELSE {r \in RunsOf(org, eid) :
            /\ r.status = "success"
            /\ \A q \in RunsOf(org, eid) : q.status = "success" => q.id <= r.id}

FindingsOf(run_id) == SelectSeq(findings, LAMBDA f : f.run_id = run_id)

PlansOf(run_id) == SelectSeq(plans, LAMBDA p : p.run_id = run_id)

Verdict(error, run_id) == [error |-> error, run_id |-> run_id]

\* The run is only looked up by id, tenant and evidence; its status is not checked.
ExportValidate_NoStatusCheck(org, eid, rid) ==
    IF ~EvidenceFound(org, eid) THEN Verdict("evidence_not_found", 0)
    ELSE IF evidence[eid].status # "processed" THEN Verdict("evidence_not_processed", 0)
    ELSE IF SelectedRuns(org, eid, rid) = {}
         THEN Verdict(IF rid # 0 THEN "workflow_run_not_found" ELSE "no_workflow_run", 0)
    ELSE LET run == CHOOSE r \in SelectedRuns(org, eid, rid) : TRUE
         IN  IF Len(FindingsOf(run.id)) = 0 THEN Verdict("findings_missing", run.id)
             ELSE IF Len(PlansOf(run.id)) = 0 THEN Verdict("action_plan_missing", run.id)
             ELSE IF DOMAIN PlansOf(run.id)[1].correlation_data = {}
                  THEN Verdict("correlation_missing", run.id)
             ELSE Verdict("ok", run.id)

\* The run is looked up before the evidence status is checked.
ExportValidate_RunFirst(org, eid, rid) ==
    IF ~EvidenceFound(org, eid) THEN Verdict("evidence_not_found", 0)
    ELSE IF SelectedRuns(org, eid, rid) = {}
         THEN Verdict(IF rid # 0 THEN "workflow_run_not_found" ELSE "no_workflow_run", 0)
    ELSE IF evidence[eid].status # "processed" THEN Verdict("evidence_not_processed", 0)
    ELSE LET run == CHOOSE r \in SelectedRuns(org, eid, rid) : TRUE
         IN  IF run.status # "success" THEN Verdict("workflow_run_not_successful", run.id)
             ELSE IF Len(FindingsOf(run.id)) = 0 THEN Verdict("findings_missing", run.id)
             ELSE IF Len(PlansOf(run.id)) = 0 THEN Verdict("action_plan_missing", run.id)
             ELSE IF DOMAIN PlansOf(run.id)[1].correlation_data = {}
                  THEN Verdict("correlation_missing", run.id)
             ELSE Verdict("ok", run.id)

\* export_audit_packet, the checks in the order of the code
ExportValidate(org, eid, rid) ==
    IF ~EvidenceFound(org, eid) THEN Verdict("evidence_not_found", 0)
    ELSE IF evidence[eid].status # "processed" THEN Verdict("evidence_not_processed", 0)
    ELSE IF SelectedRuns(org, eid, rid) = {}
         THEN Verdict(IF rid # 0 THEN "workflow_run_not_found" ELSE "no_workflow_run", 0)
    ELSE LET run == CHOOSE r \in SelectedRuns(org, eid, rid) : TRUE
         IN  IF run.status # "success" THEN Verdict("workflow_run_not_successful", run.id)
             ELSE IF Len(FindingsOf(run.id)) = 0 THEN Verdict("findings_missing", run.id)
             ELSE IF Len(PlansOf(run.id)) = 0 THEN Verdict("action_plan_missing", run.id)
             ELSE IF DOMAIN PlansOf(run.id)[1].correlation_data = {}
                  THEN Verdict("correlation_missing", run.id)
             ELSE Verdict("ok", run.id)

\* dict.get(key, default)
Get(d, key, default) == IF key \in DOMAIN d THEN d[key] ELSE default

\* export_audit_packet, the query for the audit section: the tenant's entries
\* whose entity_type is evidence or workflow_run and whose entity_id is the
\* evidence id or the run id
AuditSection(run) ==
    SelectSeq(audit, LAMBDA e :
        /\ e.org = run.org
        /\ e.entity_type \in {"evidence", "workflow_run"}
        /\ e.entity_id \in {run.evidence_id, run.id})

\* export_audit_packet, the Markdown it builds from the rows of the run: per
\* finding the joined CFR references, per action owner and deadline, the
\* narrative bullets, the vendor matches and the feed sources; each with the
\* text the code writes when the value is empty or absent.
RenderPacket(run) ==
    LET fs == FindingsOf(run.id)
        plan == PlansOf(run.id)[1]
        corr == plan.correlation_data
        narrative == Get(corr, "narrative", <<>>)
        vendor_matches == Get(corr, "vendor_matches", <<>>)
        sources == Get(corr, "watchtower_snapshot", [sources_status |-> {}]).sources_status
    IN  [ run_id |-> run.id,
          status |-> run.status,
          audit_log |-> AuditSection(run),
          findings |->
              [i \in 1..Len(fs) |->
                  [title |-> fs[i].title,
                   cfr_refs |-> IF fs[i].cfr_refs # <<>> THEN fs[i].cfr_refs
                                ELSE <<"None specified">>]],
          narrative |-> IF narrative # <<>> THEN narrative
                        ELSE <<[bullet |-> "No significant correlations detected between Watchtower data and evidence.",
                                n |-> 0]>>,
          vendor_matches |-> IF vendor_matches # <<>>
                             THEN [i \in 1..Len(vendor_matches) |-> vendor_matches[i].name]
                             ELSE <<"_No vendor matches found in document._">>,
          sources |-> IF sources # {} THEN {s.source : s \in sources}
                      ELSE {"_No feed sources configured._"},
          actions |->
              IF plan.actions # <<>>
              THEN [i \in 1..Len(plan.actions) |->
                      [title |-> Get(plan.actions[i], "title", <<"Action">>),
                       owner |-> Get(plan.actions[i], "owner", "Unassigned"),
                       deadline |-> Get(plan.actions[i], "deadline", "Not set")]]
              ELSE <<[title |-> <<"_No specific actions required based on findings._">>,
                      owner |-> "none", deadline |-> "none"]>> ]

\* The response that carries the Markdown document
PacketResponse(org, eid, rid, run) ==
    [op |-> "export", org |-> org, eid |-> eid, rid |-> rid, kind |-> "packet",
     error |-> "none", run_id |-> run.id, packet |-> RenderPacket(run)]

\* export_audit_packet: validation, rendering, the audit entry and its commit.
\* auditFault: the commit of the audit entry raises, and the handler with it.
\* The export is logged under another action name.
ExportAuditLog_Unnamed(org, run_id) ==
    AuditEntry(org, "workflow_run_completed", "workflow_run", run_id)

\* The audit entry the export adds before it returns the packet
ExportAuditLog(org, run_id) ==
    AuditEntry(org, "audit_packet_exported", "workflow_run", run_id)

ExportAuditPacket(org, eid, rid, auditFault) ==
    /\ LET v == ExportValidate(org, eid, rid)
       IN  IF v.error # "ok"
           THEN /\ resp' = Response("export", org, eid, rid, "refused", v.error, v.run_id)
                /\ UNCHANGED audit
           ELSE IF auditFault
           THEN /\ resp' = Response("export", org, eid, rid, "raised", "db_commit", v.run_id)
                /\ UNCHANGED audit
           ELSE /\ ExportedCount < MaxExports
                /\ resp' = PacketResponse(org, eid, rid,
                                CHOOSE r \in SelectedRuns(org, eid, rid) : TRUE)
                /\ audit' = Append(audit, ExportAuditLog(org, v.run_id))
    /\ UNCHANGED <<evidence, runs, runSeq, findings, plans, wf>>
    /\ UNCHANGED <<syncvars, parsed, calls>>

\* ------------------------------------------------------- sync engine
Procs == 1..NumProcs

\* PROVIDERS registry (source ids) and the source ids callers pass
PROVIDERS == {"fda_recalls", "fda_warning_letters", "fda_shortages"}

SyncSources == {"fda_recalls", "no_such_source"}

ExtIds == {"x1", "x2"}

Key(source, ext) == <<source, ext>>

ModelledProviders == PROVIDERS \cap SyncSources

Keys == PROVIDERS \X ExtIds

\* What a provider's fetch can return: item lists (by external id), or an exception
Batches == {b \in UNION {[1..n -> ExtIds] : n \in 0..MaxBatch} : TRUE}

FetchOutcomes ==
    {[ok |-> TRUE, batch |-> b, error |-> "none", http |-> 200, rev |-> 1] : b \in Batches}
    \cup {[ok |-> FALSE, batch |-> <<>>, error |-> "HTTP 503", http |-> 503, rev |-> 0]}

NoResult == [kind |-> "none", source |-> "none", success |-> FALSE, items_fetched |-> 0,
             items_added |-> 0, cached |-> FALSE, error_message |-> "none"]

IdleProc ==
    [pc |-> "idle", source |-> "none", batch |-> <<>>, i |-> 0, pending |-> {},
     new_count |-> 0, skipped |-> 0, violations |-> 0, faulted |-> FALSE,
     persisted |-> FALSE, cached |-> FALSE, threw |-> FALSE,
     error |-> "none", http |-> 0, status_written |-> FALSE,
     called |-> FALSE, cache_fail |-> "none", force |-> FALSE, now |-> 0, loaded |-> <<>>,
     started |-> 0, ended |-> 0, result |-> NoResult, rev |-> 0]

NoCache == [kind |-> "miss", batch |-> <<>>, rev |-> 0]

\* WatchtowerProvider.get_cache_key
CacheKey(source) == "watchtower:cache:" \o source

CacheKeys == {CacheKey(source) : source \in PROVIDERS}

\* A value that does not parse is taken for an empty list of items.
GetFromCache_NoParseGuard(source, redisUp) ==
    IF redisUp /\ cache[CacheKey(source)].kind # "miss"
    THEN [kind |-> "hit", batch |-> cache[CacheKey(source)].batch,
          rev |-> cache[CacheKey(source)].rev]
    ELSE NoCache

\* _get_from_cache: None unless Redis answers with a value that parses
GetFromCache(source, redisUp) ==
    IF redisUp /\ cache[CacheKey(source)].kind = "hit" THEN cache[CacheKey(source)] ELSE NoCache

\* The cache is never written.
SetCache_Skip(c, source, batch, rev, redisUp) == c

\* _set_cache: a failed write is logged and ignored
SetCache(c, source, batch, rev, redisUp) ==
    IF redisUp
    THEN [c EXCEPT ![CacheKey(source)] = [kind |-> "hit", batch |-> batch, rev |-> rev]]
    ELSE c

\* The call's state as sync_provider enters it
NewCall(source, force, redisUp) ==
    [IdleProc EXCEPT !.started = clock, !.source = source,
                     !.cache_fail = IF source \notin PROVIDERS THEN "none"
                                    ELSE IF ~redisUp THEN "unreachable"
                                    ELSE IF ~force /\ cache[CacheKey(source)].kind = "corrupt"
                                    THEN "corrupt" ELSE "none",
                     !.force = force]

\* sync_provider up to _persist_items: provider lookup, cache, fetch
BeginSync(p, source, force, redisUp, outcome) ==
    IF source \notin PROVIDERS
    THEN /\ procs' = [procs EXCEPT ![p] =
               [NewCall(source, force, redisUp) EXCEPT !.pc = "status",
                                                       !.error = "Unknown provider"]]
         /\ UNCHANGED <<cache, lastHttp>>
    ELSE LET hit == IF force THEN NoCache ELSE GetFromCache(source, redisUp)
         IN  IF hit.kind = "hit"
             THEN /\ procs' = [procs EXCEPT ![p] =
                        [NewCall(source, force, redisUp) EXCEPT
                            !.pc = "check", !.batch = hit.batch, !.rev = hit.rev, !.i = 1,
                            !.cached = TRUE,
                            !.http = lastHttp[source]]]
                  /\ UNCHANGED <<cache, lastHttp>>
             ELSE IF outcome.ok
             THEN /\ procs' = [procs EXCEPT ![p] =
                        [NewCall(source, force, redisUp) EXCEPT
                            !.pc = "check", !.batch = outcome.batch, !.rev = outcome.rev,
                            !.i = 1, !.called = TRUE, !.http = outcome.http]]
                  /\ cache' = SetCache(cache, source, outcome.batch, outcome.rev, redisUp)
                  /\ lastHttp' = [lastHttp EXCEPT ![source] = outcome.http]
             ELSE /\ procs' = [procs EXCEPT ![p] =
                        [NewCall(source, force, redisUp) EXCEPT
                            !.pc = "status", !.threw = TRUE, !.called = TRUE,
                            !.error = outcome.error, !.http = outcome.http]]
                  /\ lastHttp' = [lastHttp EXCEPT ![source] = outcome.http]
                  /\ UNCHANGED cache

\* SyncOne: the sync endpoint called with a source
SyncStart(p, source, force, redisUp, outcome) ==
    /\ procs[p].pc = "idle"
    /\ ~syncAll[p].active
    /\ syncCalls < MaxSyncCalls
    /\ syncCalls' = syncCalls + 1
    /\ BeginSync(p, source, force, redisUp, outcome)
    /\ UNCHANGED <<items, syncStatus, clock, syncAll, fetch>>
    /\ UNCHANGED <<wfvars, parsed, itemRows, calls>>

\* The task running sync_provider is cancelled while it is suspended in
\* await provider.fetch(): CancelledError is raised at the await. It is a
\* BaseException, so the handler's except Exception does not catch it: it
\* leaves sync_provider without a status write and without a result.
SyncCancel(p, source, force, redisUp) ==
    /\ procs[p].pc = "idle"
    /\ ~syncAll[p].active
    /\ syncCalls < MaxSyncCalls
    /\ source \in PROVIDERS
    /\ (IF force THEN NoCache ELSE GetFromCache(source, redisUp)).kind # "hit"
    /\ syncCalls' = syncCalls + 1
    /\ procs' = [procs EXCEPT ![p] =
           [NewCall(source, force, redisUp) EXCEPT
               !.called = TRUE,
               !.result = [NoResult EXCEPT !.kind = "cancelled", !.source = source]]]
    /\ UNCHANGED <<items, syncStatus, cache, lastHttp, clock, syncAll, fetch>>
    /\ UNCHANGED <<wfvars, parsed, itemRows, calls>>

\* The cached value expires (TTL 900 s).
CacheExpire(source) ==
    /\ cache[CacheKey(source)].kind # "miss"
    /\ cache' = [cache EXCEPT ![CacheKey(source)] = NoCache]
    /\ UNCHANGED <<items, syncStatus, procs, lastHttp, clock, syncCalls, syncAll, fetch>>
    /\ UNCHANGED <<wfvars, parsed, itemRows, calls>>

\* The value under the key is damaged: it no longer parses.
CacheCorrupt(source) ==
    /\ cache[CacheKey(source)].kind = "hit"
    /\ cache' = [cache EXCEPT ![CacheKey(source)] = [kind |-> "corrupt", batch |-> <<>>, rev |-> 0]]
    /\ UNCHANGED <<items, syncStatus, procs, lastHttp, clock, syncCalls, syncAll, fetch>>
    /\ UNCHANGED <<wfvars, parsed, itemRows, calls>>

CurrentKey(p) == Key(procs[p].source, procs[p].batch[procs[p].i])

\* The fetched item is written over the rows found.
SkipExisting_Overwrite(rows, rev) == [i \in 1..Len(rows) |-> rev]

\* if existing: continue. The rows found are left as they are; the fetched
\* item, whatever its title, url, summary and raw_json, is dropped.
SkipExisting(rows, rev) == rows

\* WatchtowerItem(...) + db.add: a new row with the fetched item's content
InsertRow(rows, rev) == Append(rows, rev)

\* _persist_items, per item: the existence query sees the committed rows and
\* the rows this session has flushed.
PersistCheck(p) ==
    /\ procs[p].pc = "check"
    /\ procs[p].i <= Len(procs[p].batch)
    /\ IF items[CurrentKey(p)] > 0 \/ CurrentKey(p) \in procs[p].pending
       THEN /\ procs' = [procs EXCEPT ![p].i = @ + 1, ![p].skipped = @ + 1]
            /\ itemRows' = [itemRows EXCEPT ![CurrentKey(p)] = SkipExisting(@, procs[p].rev)]
       ELSE /\ procs' = [procs EXCEPT ![p].pc = "insert"]
            /\ UNCHANGED itemRows
    /\ UNCHANGED <<items, syncStatus, cache, lastHttp, clock, syncCalls, syncAll, fetch>>
    /\ UNCHANGED <<wfvars, parsed, calls>>

\* UniqueConstraint('source', 'external_id') switched off
UniqueViolation_Off(key) == FALSE

\* UniqueConstraint('source', 'external_id'): the INSERT fails on a committed row
UniqueViolation(key) == items[key] > 0

\* The INSERT waits while another transaction holds an uncommitted row of the key.
InsertBlocked(p, key) == \E q \in Procs \ {p} : key \in procs[q].pending

\* db.rollback() at the except clause: every row this session has flushed goes
Rollback(pending) == {}

PersistFaults == {"none", "db_error", "rollback_raises"}

\* _persist_items, per item: add + flush, and the except clause
PersistInsert(p, fault) ==
    /\ procs[p].pc = "insert"
    /\ LET key == CurrentKey(p)
       IN  IF fault = "rollback_raises"
           THEN procs' = [procs EXCEPT ![p].pc = "status", ![p].pending = {},
                                       ![p].faulted = TRUE, ![p].error = "db_error"]
           ELSE IF fault = "db_error"
           THEN procs' = [procs EXCEPT ![p].pc = "check", ![p].i = @ + 1,
                                       ![p].pending = Rollback(@), ![p].faulted = TRUE]
           ELSE /\ ~InsertBlocked(p, key)
                /\ IF UniqueViolation(key)
                   THEN procs' = [procs EXCEPT ![p].pc = "check", ![p].i = @ + 1,
                                               ![p].pending = Rollback(@),
                                               ![p].violations = @ + 1]
                   ELSE procs' = [procs EXCEPT ![p].pc = "check", ![p].i = @ + 1,
                                               ![p].pending = @ \cup {key},
                                               ![p].new_count = @ + 1]
    /\ UNCHANGED <<items, syncStatus, cache, lastHttp, clock, syncCalls, syncAll, fetch>>
    /\ UNCHANGED <<wfvars, parsed, itemRows, calls>>

\* _persist_items, the final commit; a failed commit returns 0
PersistCommit(p, fault) ==
    /\ procs[p].pc = "check"
    /\ procs[p].i > Len(procs[p].batch)
    /\ IF fault
       THEN /\ procs' = [procs EXCEPT ![p].pc = "status", ![p].pending = {},
                                      ![p].new_count = 0, ![p].faulted = TRUE,
                                      ![p].persisted = TRUE]
            /\ UNCHANGED <<items, itemRows>>
       ELSE /\ items' = [k \in Keys |-> IF k \in procs[p].pending THEN items[k] + 1 ELSE items[k]]
            /\ itemRows' = [k \in Keys |-> IF k \in procs[p].pending
                                           THEN InsertRow(itemRows[k], procs[p].rev)
                                           ELSE itemRows[k]]
            /\ procs' = [procs EXCEPT ![p].pc = "status", ![p].pending = {},
                                      ![p].persisted = TRUE]
    /\ UNCHANGED <<syncStatus, cache, lastHttp, clock, syncCalls, syncAll, fetch>>
    /\ UNCHANGED <<wfvars, parsed, calls>>

NoStatusRow ==
    [last_run_at |-> 0, last_success_at |-> 0, last_error_at |-> 0,
     last_error_message |-> "none", last_http_status |-> 0,
     items_fetched |-> 0, items_saved |-> 0]

\* the status row written without the error fields
StatusRow_NoError(old, now, success, error, http, fetched, saved) ==
    [old EXCEPT !.last_run_at = now, !.last_http_status = http,
                !.items_fetched = fetched, !.items_saved = saved,
                !.last_success_at = IF success THEN now ELSE @]

\* the status row with last_run_at moved only by a successful run
StatusRow_RunOnSuccess(old, now, success, error, http, fetched, saved) ==
    [old EXCEPT !.last_run_at = IF success THEN now ELSE @, !.last_http_status = http,
                !.items_fetched = fetched, !.items_saved = saved,
                !.last_success_at = IF success THEN now ELSE @,
                !.last_error_at = IF success THEN 0 ELSE now,
                !.last_error_message = IF success THEN "none" ELSE error]

\* last_error_message is cut at this many characters
ERROR_MESSAGE_LIMIT == 500

\* Length of the message an error stands for. str() of a database error quotes
\* the statement and its parameters and is taken to run past the limit; its
\* cut form has exactly the limit.
Chars(error) ==
    CASE error \in {"none", ""} -> 0
      [] error = "db_error" -> 2 * ERROR_MESSAGE_LIMIT
      [] error = "db_error[:500]" -> ERROR_MESSAGE_LIMIT
      [] error = "HTTP 503" -> 8
      [] OTHER -> 16

\* error[:n]
Slice(error, n) ==
    IF Chars(error) <= n THEN error ELSE "db_error[:500]"

\* _update_sync_status: the fields it assigns (0 and "none" stand for None)
StatusRow(old, now, success, error, http, fetched, saved) ==
    [old EXCEPT !.last_run_at = now, !.last_http_status = http,
                !.items_fetched = fetched, !.items_saved = saved,
                !.last_success_at = IF success THEN now ELSE @,
                !.last_error_at = IF success THEN 0 ELSE now,
                !.last_error_message = IF success \/ error = "" THEN "none"
                                       ELSE Slice(error, ERROR_MESSAGE_LIMIT)]

\* the result dict with items_added taken from the fetched count
SyncResult_AddedIsFetched(pr, success) ==
    [kind |-> "returned", source |-> pr.source, success |-> success,
     items_fetched |-> IF pr.persisted \/ pr.i > 0 THEN Len(pr.batch) ELSE 0,
     items_added |-> IF pr.persisted \/ pr.i > 0 THEN Len(pr.batch) ELSE 0,
     cached |-> pr.cached,
     error_message |-> pr.error]

\* the result dict sync_provider returns
SyncResult(pr, success) ==
    [kind |-> "returned", source |-> pr.source, success |-> success,
     items_fetched |-> IF pr.persisted \/ pr.i > 0 THEN Len(pr.batch) ELSE 0,
     items_added |-> IF pr.persisted THEN pr.new_count ELSE 0,
     cached |-> pr.cached,
     error_message |-> pr.error]

\* _update_sync_status, first half: the row is queried and its attributes set
LoadSyncStatus(p) ==
    /\ procs[p].pc = "status"
    /\ clock' = clock + 1
    /\ procs' = [procs EXCEPT ![p].pc = "status_commit", ![p].now = clock + 1,
                              ![p].loaded = syncStatus[procs[p].source]]
    /\ UNCHANGED <<items, syncStatus, cache, lastHttp, syncCalls, syncAll, fetch>>
    /\ UNCHANGED <<wfvars, parsed, itemRows, calls>>

StatusFields == DOMAIN NoStatusRow

\* The UPDATE of the flush: only the attributes that differ from the loaded
\* values are written, onto the row as it is in the table by then.
FlushRow(cur, loaded, row) ==
    [f \in StatusFields |-> IF row[f] # loaded[f] THEN row[f] ELSE cur[f]]

\* What the commit makes of the table: INSERT of a new row (refused by the
\* unique source when a row has appeared), or UPDATE of the loaded one.
CommitStatus(table, source, loaded, row) ==
    IF Len(loaded) = 0
    THEN IF Len(table[source]) = 0 THEN [table EXCEPT ![source] = <<row>>] ELSE table
    ELSE [table EXCEPT ![source] = <<FlushRow(table[source][1], loaded[1], row)>>]

\* sync_all_providers: the result joins the list, the loop moves on
Collect(sa, result) ==
    IF sa.active THEN [sa EXCEPT !.results = Append(@, result), !.todo = Tail(@)] ELSE sa

\* The except clause of _update_sync_status lets the failure out to the caller.
AfterStatusWrite_Raises(result, fault) ==
    IF fault THEN [result EXCEPT !.kind = "raised", !.success = FALSE] ELSE result

\* The except clause of _update_sync_status: the failure of the query or of
\* the commit is logged, the session rolled back (a failing rollback is
\* passed over), and the caller goes on to return the result it had.
AfterStatusWrite(result, fault) == result

\* _update_sync_status, second half: commit (a failure is logged and
\* swallowed); then sync_provider returns its result
UpdateSyncStatus(p, fault) ==
    /\ procs[p].pc = "status_commit"
    /\ LET pr == procs[p]
           success == pr.error = "none"
           old == IF Len(pr.loaded) = 0 THEN NoStatusRow ELSE pr.loaded[1]
           row == StatusRow(old, pr.now, success, pr.error, pr.http,
                            IF success THEN Len(pr.batch) ELSE 0,
                            IF success THEN pr.new_count ELSE 0)
           refused == Len(pr.loaded) = 0 /\ Len(syncStatus[pr.source]) # 0
       IN  /\ syncStatus' = IF fault THEN syncStatus
                            ELSE CommitStatus(syncStatus, pr.source, pr.loaded, row)
           /\ procs' = [procs EXCEPT ![p].pc = "idle",
                                     ![p].status_written = ~fault /\ ~refused,
                                     ![p].ended = clock + 1,
                                     ![p].result =
                                         AfterStatusWrite(SyncResult(pr, success), fault)]
           /\ syncAll' = [syncAll EXCEPT
                              ![p] = Collect(@, AfterStatusWrite(SyncResult(pr, success), fault))]
    /\ clock' = clock + 1
    /\ UNCHANGED <<items, cache, lastHttp, syncCalls, fetch>>
    /\ UNCHANGED <<wfvars, parsed, itemRows, calls>>

\* ------------------------------------------------- sync of all sources
\* SOURCE_CONFIG: the enabled sources in the order of the dict
EnabledProviders == <<"fda_recalls", "fda_shortages", "fda_warning_letters">>

NoSummary ==
    [kind |-> "none", status |-> "none", degraded |-> FALSE, results |-> <<>>,
     total_items_added |-> 0, sources_succeeded |-> 0, sources_failed |-> 0]

IdleSyncAll == [active |-> FALSE, force |-> FALSE, todo |-> <<>>, results |-> <<>>,
                summary |-> NoSummary]

\* sync_all_providers: the loop is entered
SyncAllStart(p, force) ==
    /\ procs[p].pc = "idle"
    /\ ~syncAll[p].active
    /\ syncCalls < MaxSyncAll
    /\ syncCalls' = syncCalls + 1
    /\ syncAll' = [syncAll EXCEPT ![p] = [IdleSyncAll EXCEPT !.active = TRUE, !.force = force,
                                                            !.todo = EnabledProviders]]
    /\ UNCHANGED <<items, syncStatus, cache, procs, lastHttp, clock, fetch>>
    /\ UNCHANGED <<wfvars, parsed, itemRows, calls>>

\* sync_all_providers: sync_provider is called for the next source
SyncAllNext(p, redisUp, outcome) ==
    /\ procs[p].pc = "idle"
    /\ syncAll[p].active
    /\ syncAll[p].todo # <<>>
    /\ BeginSync(p, Head(syncAll[p].todo), syncAll[p].force, redisUp, outcome)
    /\ UNCHANGED <<items, syncStatus, clock, syncCalls, syncAll, fetch>>
    /\ UNCHANGED <<wfvars, parsed, itemRows, calls>>

RECURSIVE CountWhere(_, _)
CountWhere(results, success) ==
    IF results = <<>> THEN 0
    ELSE (IF Head(results).success = success THEN 1 ELSE 0) + CountWhere(Tail(results), success)

\* total_items_added: the items_added of the results that succeeded
RECURSIVE TotalAdded(_)
TotalAdded(results) ==
    IF results = <<>> THEN 0
    ELSE (IF Head(results).success THEN Head(results).items_added ELSE 0)
         + TotalAdded(Tail(results))

\* Any failure makes the overall status "error".
OverallStatus_ErrorOnAnyFailure(succeeded, failed) ==
    IF failed = 0 THEN [status |-> "ok", degraded |-> FALSE]
    ELSE [status |-> "error", degraded |-> TRUE]

\* sync_all_providers: the overall status
OverallStatus(succeeded, failed) ==
    IF failed = 0 THEN [status |-> "ok", degraded |-> FALSE]
    ELSE IF succeeded = 0 THEN [status |-> "error", degraded |-> TRUE]
    ELSE [status |-> "ok", degraded |-> TRUE]

\* The response with the failed results left out of the list.
SyncAllSummary_DropsFailed(results) ==
    [kind |-> "returned",
     status |-> OverallStatus(CountWhere(results, TRUE), CountWhere(results, FALSE)).status,
     degraded |-> OverallStatus(CountWhere(results, TRUE), CountWhere(results, FALSE)).degraded,
     results |-> SelectSeq(results, LAMBDA r : r.success),
     total_items_added |-> TotalAdded(results),
     sources_succeeded |-> CountWhere(results, TRUE),
     sources_failed |-> 0]

\* sync_all_providers: the response
SyncAllSummary(results) ==
    [kind |-> "returned",
     status |-> OverallStatus(CountWhere(results, TRUE), CountWhere(results, FALSE)).status,
     degraded |-> OverallStatus(CountWhere(results, TRUE), CountWhere(results, FALSE)).degraded,
     results |-> results,
     total_items_added |-> TotalAdded(results),
     sources_succeeded |-> CountWhere(results, TRUE),
     sources_failed |-> CountWhere(results, FALSE)]

\* sync_all_providers: the loop is over, the response is built
SyncAllFinish(p) ==
    /\ procs[p].pc = "idle"
    /\ syncAll[p].active
    /\ syncAll[p].todo = <<>>
    /\ syncAll' = [syncAll EXCEPT ![p].active = FALSE,
                                  ![p].summary = SyncAllSummary(syncAll[p].results)]
    /\ UNCHANGED <<items, syncStatus, cache, procs, lastHttp, clock, syncCalls, fetch>>
    /\ UNCHANGED <<wfvars, parsed, itemRows, calls>>

\* ------------------------------------------------------------- health
\* SOURCE_CONFIG: the enabled sources marked required
RequiredSources == {"fda_recalls", "fda_shortages", "fda_warning_letters"}

\* A source without a run counts as healthy.
SourceStatus_PendingOk(rows) ==
    IF Len(rows) = 0 \/ rows[1].last_run_at = 0 THEN "ok"
    ELSE IF rows[1].last_error_at # 0 /\ (rows[1].last_success_at = 0 \/
                                          rows[1].last_error_at > rows[1].last_success_at)
    THEN "error"
    ELSE "ok"

\* get_health_status: the status of one source, from its status row
SourceStatus(rows) ==
    IF Len(rows) = 0 \/ rows[1].last_run_at = 0 THEN "pending"
    ELSE IF rows[1].last_error_at # 0 /\ (rows[1].last_success_at = 0 \/
                                          rows[1].last_error_at > rows[1].last_success_at)
    THEN "error"
    ELSE "ok"

\* get_health_status: the overall status from the counts of required sources
OverallHealth(required, failing) ==
    IF required = 0 THEN "healthy"
    ELSE IF failing = required THEN "down"
    ELSE IF failing > 0 THEN "degraded"
    ELSE "healthy"

\* get_health_status, over the status table
GetHealthStatus(table) ==
    LET sources == [s \in {EnabledProviders[n] : n \in 1..Len(EnabledProviders)} |->
                        SourceStatus(table[s])]
        failing == Cardinality({s \in DOMAIN sources \cap RequiredSources : sources[s] # "ok"})
    IN  [overall_status |-> OverallHealth(Cardinality(DOMAIN sources \cap RequiredSources), failing),
         sources |-> sources,
         all_sources_healthy |-> failing = 0]

\* ------------------------------------------------------ provider fetch
MAX_RETRIES == 3
BACKOFF_BASE == 1

\* What one HTTP request can end in: a network error, a status, or a 2xx
\* whose body holds items, holds none, or does not parse.
Responses == {"neterr", "http429", "http503", "http404", "ok", "ok_empty", "ok_badbody"}

\* [FDA_SHORTAGES_PRIMARY] + FDA_SHORTAGES_FALLBACK_URLS
ShortagesUrls == <<"shortages_primary", "shortages_fallback">>

\* FDA_RECALLS_RSS_URLS
RecallsRssUrls == <<"recalls_rss_1", "recalls_rss_2">>

IdleFetch ==
    [pc |-> "idle", provider |-> "none", attempt |-> 0, url |-> 1, log |-> <<>>,
     waits |-> <<>>, fallback |-> FALSE, items |-> "none"]

RECURSIVE Pow2(_)
Pow2(n) == IF n = 0 THEN 1 ELSE 2 * Pow2(n - 1)

\* if attempt < MAX_RETRIES - 1: await asyncio.sleep(BACKOFF_BASE * (2 ** attempt))
Backoff(f) ==
    IF f.attempt < MAX_RETRIES - 1
    THEN [f EXCEPT !.waits = Append(@, BACKOFF_BASE * Pow2(f.attempt))]
    ELSE f

\* client.get(url): the request and its response join the log
Request(f, endpoint, reply) ==
    [f EXCEPT !.log = Append(@, [endpoint |-> endpoint, reply |-> reply])]

Returned(f, reply) ==
    [f EXCEPT !.pc = "returned", !.items = IF reply = "ok" THEN "some" ELSE "empty"]

\* provider.fetch() is entered
FetchStart(provider) ==
    /\ fetch.pc = "idle"
    /\ fetch' = [IdleFetch EXCEPT !.pc = "running", !.provider = provider]
    /\ UNCHANGED <<items, syncStatus, cache, procs, lastHttp, clock, syncCalls, syncAll>>
    /\ UNCHANGED <<wfvars, parsed, itemRows, calls>>

\* FDAWarningLettersProvider.fetch, one pass of the loop. The Exception raised
\* for a 4xx, and for the last 429 / 5xx, is raised inside the try block and
\* caught by "except Exception": the pass ends in the backoff like any other.
WarningLettersNext(f, reply) ==
    IF reply \in {"ok", "ok_empty", "ok_badbody"}
    THEN Returned(f, reply)
    ELSE [Backoff(f) EXCEPT !.attempt = @ + 1,
                            !.pc = IF f.attempt + 1 = MAX_RETRIES THEN "raised" ELSE "running"]

WarningLettersAttempt(reply) ==
    /\ fetch.pc = "running"
    /\ fetch.provider = "fda_warning_letters"
    /\ fetch' = WarningLettersNext(Request(fetch, "warning_letters", reply), reply)
    /\ UNCHANGED <<items, syncStatus, cache, procs, lastHttp, clock, syncCalls, syncAll>>
    /\ UNCHANGED <<wfvars, parsed, itemRows, calls>>

\* FDAShortagesProvider.fetch, one URL of one round: only a response with
\* items returns; after the last URL of a round comes the backoff.
ShortagesNext(f, reply) ==
    IF reply = "ok"
    THEN Returned(f, reply)
    ELSE IF f.url < Len(ShortagesUrls)
    THEN [f EXCEPT !.url = @ + 1]
    ELSE [Backoff(f) EXCEPT !.attempt = @ + 1, !.url = 1,
                            !.pc = IF f.attempt + 1 = MAX_RETRIES THEN "raised" ELSE "running"]

ShortagesAttempt(reply) ==
    /\ fetch.pc = "running"
    /\ fetch.provider = "fda_shortages"
    /\ fetch' = ShortagesNext(Request(fetch, ShortagesUrls[fetch.url], reply), reply)
    /\ UNCHANGED <<items, syncStatus, cache, procs, lastHttp, clock, syncCalls, syncAll>>
    /\ UNCHANGED <<wfvars, parsed, itemRows, calls>>

\* _try_rss_fallback is called
ToFallback(f) == [f EXCEPT !.pc = "fallback", !.fallback = TRUE, !.url = 1]

\* A 4xx of the primary ends the fetch at once.
RecallsNext_NoFallbackOn4xx(f, reply) ==
    IF reply \in {"ok", "ok_empty"} THEN Returned(f, reply)
    ELSE IF reply = "http404" THEN [f EXCEPT !.pc = "raised"]
    ELSE IF f.attempt < MAX_RETRIES - 1
    THEN [Backoff(f) EXCEPT !.attempt = @ + 1]
    ELSE ToFallback([f EXCEPT !.attempt = @ + 1])

\* FDARecallsProvider.fetch, one pass of the loop over the primary API
RecallsNext(f, reply) ==
    IF reply \in {"ok", "ok_empty"} THEN Returned(f, reply)
    ELSE IF reply = "http404" THEN ToFallback(f)
    ELSE IF f.attempt < MAX_RETRIES - 1
    THEN [Backoff(f) EXCEPT !.attempt = @ + 1]
    ELSE ToFallback([f EXCEPT !.attempt = @ + 1])

RecallsAttempt(reply) ==
    /\ fetch.pc = "running"
    /\ fetch.provider = "fda_recalls"
    /\ fetch' = RecallsNext(Request(fetch, "recalls_primary", reply), reply)
    /\ UNCHANGED <<items, syncStatus, cache, procs, lastHttp, clock, syncCalls, syncAll>>
    /\ UNCHANGED <<wfvars, parsed, itemRows, calls>>

\* _try_rss_fallback, one URL: the first feed that parses ends the loop, and
\* fetch raises when the list it returns is empty.
RecallsFallbackNext(f, reply) ==
    IF reply = "ok" THEN Returned(f, reply)
    ELSE IF reply = "ok_empty" THEN [f EXCEPT !.pc = "raised"]
    ELSE IF f.url < Len(RecallsRssUrls) THEN [f EXCEPT !.url = @ + 1]
    ELSE [f EXCEPT !.pc = "raised"]

RecallsFallback(reply) ==
    /\ fetch.pc = "fallback"
    /\ fetch' = RecallsFallbackNext(Request(fetch, RecallsRssUrls[fetch.url], reply), reply)
    /\ UNCHANGED <<items, syncStatus, cache, procs, lastHttp, clock, syncCalls, syncAll>>
    /\ UNCHANGED <<wfvars, parsed, itemRows, calls>>

\* ------------------------------------------------------ adapter parsing
\* Upstream text is a sequence of words. None and the empty string, which the
\* parsers treat alike (both are false), are the empty sequence.
None == <<>>

\* x or y
Or(x, y) == IF x # None THEN x ELSE y

\* str.lower(), on the words the upstream values are made of
LowerWord(w) ==
    CASE w = "Acme" -> "acme"
      [] w = "Pharma" -> "pharma"
      [] w = "Unknown" -> "unknown"
      [] w = "Currently" -> "currently"
      [] w = "Shortage" -> "shortage"
      [] w = "Resolved" -> "resolved"
      [] w = "Limited" -> "limited"
      [] OTHER -> w

LowerText(t) == [i \in 1..Len(t) |-> LowerWord(t[i])]

\* text.replace(' ', '-')
RECURSIVE Hyphenate(_)
Hyphenate(t) ==
    IF Len(t) <= 1 THEN t ELSE <<Head(t), "-">> \o Hyphenate(Tail(t))

\* A date in upstream text is <<format, day>>; a datetime is <<"datetime", day>>.
\* datetime.strptime(text, fmt), None standing for its ValueError
StrpTime(text, fmt) ==
    IF Len(text) = 2 /\ text[1] = fmt THEN <<"datetime", text[2]>> ELSE None

\* dt.strftime(fmt)
StrfTime(dt, fmt) == <<fmt, dt[2]>>

\* dt.isoformat()
IsoFormat(dt) == <<"iso", dt[2]>>

\* The formats _parse_date tries
DateFormats == {"%m/%d/%Y", "%Y-%m-%d", "%Y%m%d", "%B %d, %Y", "%b %d, %Y", "%d-%b-%Y"}

\* FDAShortagesProvider._parse_date
ParseDate(text) ==
    IF text = None THEN None
    ELSE IF Len(text) = 2 /\ text[1] \in DateFormats THEN <<"datetime", text[2]>>
    ELSE None

\* The calendar day of datetime.now() at logical time n
Day(n) == IF n = 0 THEN "01" ELSE IF n = 1 THEN "02" ELSE "03"

Now == <<"datetime", Day(clock)>>

\* dict.get(key) and dict.get(key, ""): None or "" when the key is absent
Field(d, key) == IF key \in DOMAIN d THEN d[key] ELSE None

\* WatchItem.generate_stable_id: the hash of "source|url|published_at|title"
\* (the digest stands for its input: no two inputs collide)
GenerateStableId(source, url, published_at, title) ==
    <<"sha256", source, "|">> \o url \o <<"|">>
        \o (IF published_at # None THEN IsoFormat(published_at) ELSE None)
        \o <<"|">> \o title

\* WatchItem and its __post_init__ (manufacturer and vendor_name kept in sync)
WatchItem(source, external_id, title, url, published_at, vendor_name, manufacturer, status) ==
    [source |-> source, external_id |-> external_id, title |-> title, url |-> url,
     published_at |-> published_at,
     vendor_name |-> Or(vendor_name, manufacturer),
     manufacturer |-> Or(manufacturer, vendor_name),
     status |-> status]

\* A parser's "return None"
NoItem ==
    [source |-> "none", external_id |-> None, title |-> None, url |-> None,
     published_at |-> None, vendor_name |-> None, manufacturer |-> None, status |-> None]

Restrict(d, S) == [k \in S |-> d[k]]

\* openFDA enforcement records: every subset of the fields of one recall
RecallsSample ==
    [recall_number |-> <<"D-0001-2024">>,
     recalling_firm |-> <<"Acme", "Pharma">>,
     product_description |-> <<"Aspirin", "Tablets">>,
     classification |-> <<"Class", "II">>,
     report_date |-> <<"%Y%m%d", "01">>]

RecallsResults == {Restrict(RecallsSample, S) : S \in SUBSET DOMAIN RecallsSample}

\* FDARecallsProvider._parse_json: the title
RecallTitle(item) ==
    (IF Field(item, "classification") # None
     THEN <<"[">> \o Field(item, "classification") \o <<"]">> ELSE <<>>)
    \o <<"Recall:">> \o Get(item, "product_description", <<"Unknown", "Product">>)

\* FDARecallsProvider._parse_json, one result
ParseRecall(item) ==
    LET recall_number == Field(item, "recall_number")
        recalling_firm == Get(item, "recalling_firm", <<"Unknown", "Manufacturer">>)
        report_date == Field(item, "report_date")
        external_id == Or(recall_number, <<"recall-">> \o recalling_firm \o <<"-">> \o report_date)
        published_at == IF report_date # None THEN StrpTime(report_date, "%Y%m%d") ELSE None
        url == IF recall_number # None THEN <<"res.cfm?id=">> \o recall_number ELSE None
    IN  WatchItem("fda_recalls", external_id, RecallTitle(item), url, published_at,
                  None, None, None)

\* SHORTAGE_STATUS_MAP and normalize_shortage_status; the partial matches are
\* taken word by word
NormalizeShortageStatus(status) ==
    LET low == LowerText(status)
        Has(words) == \E i \in 1..Len(low) : low[i] \in words
    IN  IF status = None THEN None
        ELSE IF low \in {<<"currently", "in", "shortage">>, <<"current">>, <<"active">>,
                         <<"ongoing">>} THEN <<"current">>
        ELSE IF low \in {<<"resolved">>, <<"no", "longer", "in", "shortage">>,
                         <<"discontinued">>} THEN <<"resolved">>
        ELSE IF low \in {<<"terminated">>, <<"ended">>} THEN <<"terminated">>
        ELSE IF low = <<"unknown">> THEN None
        ELSE IF Has({"current", "currently", "shortage"}) THEN <<"current">>
        ELSE IF Has({"resolved", "available"}) THEN <<"resolved">>
        ELSE IF Has({"terminated", "ended"}) THEN <<"terminated">>
        ELSE None

\* Drug shortage records: every subset of the fields of two shortages, one of
\* them with status and availability given as "Unknown"
ShortageSamples ==
    { [generic_name |-> <<"Amoxicillin">>, company_name |-> <<"Acme", "Pharma">>,
       status |-> <<"Currently", "in", "Shortage">>, availability |-> <<"Limited">>,
       package_ndc |-> <<"0001-01">>, update_date |-> <<"%m/%d/%Y", "01">>],
      [generic_name |-> <<"Amoxicillin">>, company_name |-> <<"Acme", "Pharma">>,
       status |-> <<"Unknown">>, availability |-> <<"Unknown">>,
       package_ndc |-> <<"0001-01">>, update_date |-> <<"%m/%d/%Y", "01">>] }

ShortageItems ==
    {Restrict(d, S) : d \in ShortageSamples,
                      S \in SUBSET {"generic_name", "company_name", "status", "availability",
                                    "package_ndc", "update_date"}}

\* FDAShortagesProvider._parse_shortage_item
ParseShortageItem(item) ==
    LET generic_name == Field(item, "generic_name")
        company_name == Field(item, "company_name")
        raw_status == Or(Field(item, "status"), Field(item, "availability"))
        published_at == ParseDate(Field(item, "update_date"))
        package_ndc == Field(item, "package_ndc")
        external_id == IF package_ndc # None THEN <<"shortage-">> \o package_ndc
                       ELSE GenerateStableId("fda_shortages", None, published_at, generic_name)
        availability == Field(item, "availability")
        title == <<"Drug", "Shortage:">> \o generic_name
                 \o (IF availability # None /\ LowerText(availability) # <<"unknown">>
                     THEN <<"(">> \o availability \o <<")">> ELSE <<>>)
    IN  IF generic_name = None THEN NoItem
        ELSE WatchItem("fda_shortages", external_id, title, <<"drugshortages/default.cfm">>,
                       published_at, company_name, company_name,
                       NormalizeShortageStatus(raw_status))

\* Rows of the warning letters table: company cell (text, link) and date cell
WarningLetterRows ==
    {[company |-> c, link |-> l, date |-> d] :
        c \in {None, <<"Acme", "Pharma">>},
        l \in {None, <<"/warning-letters/acme">>},
        d \in {None, <<"%m/%d/%Y", "01">>}}

\* FDAWarningLettersProvider._parse_table_row: the external id
WarningLetterId(company_name, posted_date, now) ==
    <<"wl-">> \o Hyphenate(LowerText(company_name)) \o <<"-">>
        \o StrfTime(IF posted_date # None THEN posted_date ELSE now, "%Y%m%d")

\* FDAWarningLettersProvider._parse_table_row
ParseWarningLetterRow(row, now) ==
    LET posted_date == IF row.date # None THEN StrpTime(row.date, "%m/%d/%Y") ELSE None
    IN  IF row.company = None THEN NoItem
        ELSE WatchItem("fda_warning_letters",
                       WarningLetterId(row.company, posted_date, now),
                       <<"Warning", "Letter:">> \o row.company,
                       Or(row.link, <<"FDA_WARNING_LETTERS_URL">>),
                       posted_date, None, None, None)

\* Links the fallback finds in the page
WarningLetterLinks ==
    {[text |-> <<"Acme", "Pharma">>, href |-> <<"/inspections/warning-letters/acme">>]}

\* FDAWarningLettersProvider._extract_links, one match
ExtractLink(link, now) ==
    WatchItem("fda_warning_letters",
              WarningLetterId(link.text, None, now),
              <<"Warning", "Letter:">> \o link.text,
              <<"https://www.fda.gov">> \o link.href,
              now, None, None, None)

\* _persist_items for one parsed item: an item whose (source, external_id) is
\* stored is skipped, any other is inserted. Each row keeps the upstream
\* record it was made of.
Ingest(record, it) ==
    IF it.source = "none" THEN UNCHANGED parsed
    ELSE IF \E r \in parsed : r.item.source = it.source /\ r.item.external_id = it.external_id
    THEN UNCHANGED parsed
    ELSE /\ Cardinality(parsed) < MaxFeedRows
         /\ parsed' = parsed \cup {[adapter |-> it.source, record |-> record, item |-> it]}

IngestRecall(item) ==
    /\ Ingest(item, ParseRecall(item))
    /\ UNCHANGED <<wfvars, syncvars, calls>>

IngestShortage(item) ==
    /\ Ingest(item, ParseShortageItem(item))
    /\ UNCHANGED <<wfvars, syncvars, calls>>

IngestWarningLetterRow(row) ==
    /\ Ingest(row, ParseWarningLetterRow(row, Now))
    /\ UNCHANGED <<wfvars, syncvars, calls>>

IngestWarningLetterLink(link) ==
    /\ Ingest(link, ExtractLink(link, Now))
    /\ UNCHANGED <<wfvars, syncvars, calls>>

\* The next fetch runs on a later day
DayPasses ==
    /\ clock < MaxDays - 1
    /\ clock' = clock + 1
    /\ UNCHANGED <<items, syncStatus, cache, procs, lastHttp, syncCalls, syncAll, fetch, parsed,
                   itemRows, calls>>
    /\ UNCHANGED wfvars

NextParse ==
    \/ \E item \in RecallsResults : IngestRecall(item)
    \/ \E item \in ShortageItems : IngestShortage(item)
    \/ \E row \in WarningLetterRows : IngestWarningLetterRow(row)
    \/ \E link \in WarningLetterLinks : IngestWarningLetterLink(link)
    \/ DayPasses

\* ------------------------------------------------------- specifications
NoResponse == Response("none", 0, 0, 0, "none", "none", 0)

InitWorkflow ==
    /\ evidence = <<>>
    /\ runs = {}
    /\ runSeq = 1
    /\ findings = <<>>
    /\ plans = <<>>
    /\ audit = <<>>
    /\ wf = IdleWf
    /\ resp = NoResponse

InitSync ==
    /\ items = [k \in Keys |-> 0]
    /\ syncStatus = [s \in SyncSources \cup PROVIDERS |-> <<>>]
    /\ cache = [k \in CacheKeys |-> NoCache]
    /\ procs = [p \in Procs |-> IdleProc]
    /\ lastHttp = [s \in PROVIDERS |-> 0]
    /\ clock = 0
    /\ syncCalls = 0
    /\ syncAll = [p \in Procs |-> IdleSyncAll]
    /\ fetch = IdleFetch
    /\ parsed = {}
    /\ itemRows = [k \in Keys |-> IF items[k] > 0 THEN <<1>> ELSE <<>>]
    /\ calls = NoCall

Init == InitWorkflow /\ InitSync

\* Feed states a finished sync leaves behind: one stored item after a
\* successful sync, an error row after a failed one.
FeedSnapshots ==
    { [stored |-> {Key("fda_recalls", "x1")},
       row |-> <<StatusRow(NoStatusRow, 1, TRUE, "none", 200, 1, 1)>>],
      [stored |-> {},
       row |-> <<StatusRow(StatusRow(NoStatusRow, 1, TRUE, "none", 200, 0, 0),
                           2, FALSE, "HTTP 503", 503, 0, 0)>>] }

InitWF ==
    /\ InitWorkflow
    /\ \E snap \in FeedSnapshots :
          /\ items = [k \in Keys |-> IF k \in snap.stored THEN 1 ELSE 0]
          /\ syncStatus = [s \in SyncSources \cup PROVIDERS |->
                             IF s = "fda_recalls" THEN snap.row ELSE <<>>]
    /\ cache = [k \in CacheKeys |-> NoCache]
    /\ procs = [p \in Procs |-> IdleProc]
    /\ lastHttp = [s \in PROVIDERS |-> 0]
    /\ clock = 2
    /\ syncCalls = 0
    /\ syncAll = [p \in Procs |-> IdleSyncAll]
    /\ fetch = IdleFetch
    /\ parsed = {}
    /\ itemRows = [k \in Keys |-> IF items[k] > 0 THEN <<1>> ELSE <<>>]
    /\ calls = NoCall

NextWF ==
    \/ \E org \in Orgs, doc \in Docs : UploadEvidence(org, doc)
    \/ \E org \in Orgs, doc \in Docs : CreateWatchtowerEvidence(org, doc)
    \/ \E org \in Orgs, doc \in Docs : InsertProcessingEvidence(org, doc)
    \/ \E org \in Orgs, eid \in EvidenceIds : WorkflowRefuse(org, eid)
    \/ \E org \in Orgs, eid \in EvidenceIds : WorkflowCreateRun(org, eid)
    \/ \E fault \in WorkflowFaults : WorkflowExecute(fault)
    \/ \E org \in Orgs, eid \in EvidenceIds, rid \in RunIds, auditFault \in BOOLEAN :
          ExportAuditPacket(org, eid, rid, auditFault)

\* The sync endpoint called with a source, for the given inputs
SyncCalls(outcomes, forces, redis) ==
    \E p \in Procs, source \in SyncSources, force \in forces, redisUp \in redis,
       outcome \in outcomes : SyncStart(p, source, force, redisUp, outcome)

\* The same, one call at a time
SyncCallsInTurn(outcomes, forces, redis) ==
    /\ \A q \in Procs : procs[q].pc = "idle"
    /\ SyncCalls(outcomes, forces, redis)

\* The steps of the calls in flight
SyncSteps ==
    \/ \E p \in Procs : PersistCheck(p)
    \/ \E p \in Procs, fault \in PersistFaults : PersistInsert(p, fault)
    \/ \E p \in Procs, fault \in BOOLEAN : PersistCommit(p, fault)
    \/ \E p \in Procs : LoadSyncStatus(p)
    \/ \E p \in Procs, fault \in BOOLEAN : UpdateSyncStatus(p, fault)

CacheSteps ==
    \/ \E source \in ModelledProviders : CacheExpire(source)
    \/ \E source \in ModelledProviders : CacheCorrupt(source)

\* Concurrent forced syncs, Redis unreachable
NextSync == SyncCalls(FetchOutcomes, {TRUE}, {FALSE}) \/ SyncSteps

\* Syncs one after the other, with the cache in every state
NextSeq == SyncCallsInTurn(FetchOutcomes, BOOLEAN, BOOLEAN) \/ SyncSteps \/ CacheSteps

ShortOutcomes == {o \in FetchOutcomes : Len(o.batch) <= 1 /\ (o.batch = <<>> \/ o.batch[1] = "x1")}

\* Concurrent syncs of a source whose status row may exist already
NextStatus == SyncCalls(ShortOutcomes, {TRUE}, {FALSE}) \/ SyncSteps

\* Concurrent syncs, some of them cancelled during the fetch
NextCancel ==
    \/ SyncCalls(ShortOutcomes, {TRUE}, {FALSE})
    \/ SyncSteps
    \/ \E p \in Procs, source \in ModelledProviders : SyncCancel(p, source, TRUE, FALSE)

\* A sync of all sources
NextSyncAll ==
    \/ \E p \in Procs, force \in BOOLEAN : SyncAllStart(p, force)
    \/ \E p \in Procs, outcome \in FetchOutcomes : SyncAllNext(p, FALSE, outcome)
    \/ \E p \in Procs : SyncAllFinish(p)
    \/ SyncSteps

\* One provider fetch
NextFetch ==
    \/ \E provider \in PROVIDERS : FetchStart(provider)
    \/ \E reply \in Responses : WarningLettersAttempt(reply)
    \/ \E reply \in Responses : ShortagesAttempt(reply)
    \/ \E reply \in Responses : RecallsAttempt(reply)
    \/ \E reply \in Responses : RecallsFallback(reply)

\* Two tenants with processed evidence: two documents of organization 1 and
\* one of organization 2, as three uploads leave them.
TenantDoc == [extract |-> "text", kw |-> {"temperature", "cgmp", "supplier"}, cands |-> <<AcmeCand>>]

TenantOwners == <<1, 1, 2>>

InitTenant ==
    /\ evidence = [i \in 1..Len(TenantOwners) |->
                      EvidenceRow(TenantOwners[i], UploadStatus(TenantDoc),
                                  UploadHasText(TenantDoc), TenantDoc, "copilot")]
    /\ audit = [i \in 1..Len(TenantOwners) |->
                   AuditEntry(TenantOwners[i], "evidence_uploaded", "evidence", i)]
    /\ runs = {}
    /\ runSeq = 1
    /\ findings = <<>>
    /\ plans = <<>>
    /\ wf = IdleWf
    /\ resp = NoResponse
    /\ InitSync

\* Workflow and export requests of either tenant, for every evidence id and
\* one id that no evidence has.
NextTenant ==
    \/ \E org \in Orgs, eid \in 1..(Len(TenantOwners) + 1) : WorkflowRefuse(org, eid)
    \/ \E org \in Orgs, eid \in 1..(Len(TenantOwners) + 1) : WorkflowCreateRun(org, eid)
    \/ \E fault \in {"none", "py_plan"} : WorkflowExecute(fault)
    \/ \E org \in Orgs, eid \in 1..(Len(TenantOwners) + 1), rid \in RunIds :
          ExportAuditPacket(org, eid, rid, FALSE)

\* Upstream records change between fetches: each fetch sees some revision of
\* the content (title, url, summary, raw_json) of the records it returns.
MaxRevisions == 2

RevisedOutcomes ==
    {[o EXCEPT !.rev = r] : o \in {x \in FetchOutcomes : x.ok}, r \in 1..MaxRevisions}
    \cup {o \in FetchOutcomes : ~o.ok}

NextAppend == SyncCalls(RevisedOutcomes, {TRUE}, {FALSE}) \/ SyncSteps

\* ------------------------------------------------- EPCIS chain of custody
EPCs == {"epc1", "epc2"}

MaxEvents == 3

MaxTime == 2

\* eventTime as the parsers leave it: absent, a datetime, or the text itself
\* when it is not an ISO date
EventTimes == {None, <<"str", 1>>} \cup {<<"datetime", t>> : t \in 1..MaxTime}

\* Parsed events; an event lists an EPC once.
EpcisEvents ==
    [eventType : {"ObjectEvent", "AggregationEvent"},
     action : {"ADD", "OBSERVE", "DELETE"},
     eventTime : EventTimes,
     epcList : {{"epc1"}, {"epc1", "epc2"}}]

\* isinstance(t, datetime)
IsDatetime(t) == Len(t) = 2 /\ t[1] = "datetime"

ChainBreak(severity, field_path, epc, event_index) ==
    [type |-> "chain_break", severity |-> severity, field_path |-> field_path,
     epc |-> epc, event_index |-> event_index]

\* detect_chain_breaks, epc not in epc_history
FirstAppearance(event, epc, idx) ==
    IF event.eventType = "ObjectEvent" /\ event.action # "ADD"
    THEN {ChainBreak("high", "epcList", epc, idx)}
    ELSE {}

\* detect_chain_breaks, epc in epc_history: last_entry is (idx, action, time)
LaterAppearance(event, epc, idx, last_entry) ==
    (IF /\ event.eventTime # None /\ last_entry[3] # None
        /\ IsDatetime(event.eventTime) /\ IsDatetime(last_entry[3])
        /\ event.eventTime[2] < last_entry[3][2]
     THEN {ChainBreak("high", "eventTime", epc, idx)} ELSE {})
    \cup
    (IF event.action = "DELETE" /\ last_entry[2] = "DELETE"
     THEN {ChainBreak("medium", "action", epc, idx)} ELSE {})

\* detect_chain_breaks: the loop over the events from position n (1-based;
\* event_index counts from 0)
RECURSIVE ScanEvents(_, _, _, _)
ScanEvents(events, n, epc_history, issues) ==
    IF n > Len(events) THEN issues
    ELSE LET event == events[n]
             found(epc) ==
                 IF epc_history[epc] = <<>>
                 THEN FirstAppearance(event, epc, n - 1)
                 ELSE LaterAppearance(event, epc, n - 1,
                                      epc_history[epc][Len(epc_history[epc])])
         IN  ScanEvents(events, n + 1,
                 [e \in EPCs |-> IF e \in event.epcList
                                 THEN Append(epc_history[e],
                                             <<n - 1, event.action, event.eventTime>>)
                                 ELSE epc_history[e]],
                 issues \cup UNION {found(epc) : epc \in event.epcList})

DetectChainBreaks(events) == ScanEvents(events, 1, [e \in EPCs |-> <<>>], {})

\* ------------------------------------------------- calls of the helpers
Keywords == {"temperature", "cgmp", "recall", "supplier", "labeling", "serialization"}

MaxFindings == 4

FindingTitles == <<"Finding A", "Finding B", "Finding C", "Finding D", "Finding E">>

\* Findings lists of every mix of severities
FindingLists ==
    UNION { { [i \in 1..n |-> Finding(FindingTitles[i], sev[i], <<"21 CFR 211">>)] :
                sev \in [1..n -> {"HIGH", "MEDIUM", "LOW"}] } : n \in 0..MaxFindings }

VendorRiskLists == {<<>>, <<VendorMatch(1, Vendors[1].name, "text_content", "high")>>}

\* run_complete_workflow calls _generate_mock_findings on the evidence text
CallGenerateMockFindings(kw) ==
    /\ calls = NoCall
    /\ calls' = [fn |-> "generate_mock_findings", args |-> <<kw>>,
                 result |-> GenerateMockFindings(kw)]
    /\ UNCHANGED <<wfvars, syncvars, parsed>>

\* _generate_action_plan on a findings list and the vendor matches
CallGenerateActionPlan(fs, vendor_risks) ==
    /\ calls = NoCall
    /\ calls' = [fn |-> "generate_action_plan", args |-> <<fs, vendor_risks>>,
                 result |-> GenerateActionPlan(fs, vendor_risks)]
    /\ UNCHANGED <<wfvars, syncvars, parsed>>

\* The EPCIS upload hands its parsed events to detect_chain_breaks, one more
\* event each time
CallDetectChainBreaks(event) ==
    /\ calls.fn \in {"none", "detect_chain_breaks"}
    /\ Len(calls.args) < MaxEvents
    /\ calls' = [fn |-> "detect_chain_breaks", args |-> Append(calls.args, event),
                 result |-> DetectChainBreaks(Append(calls.args, event))]
    /\ UNCHANGED <<wfvars, syncvars, parsed>>

NextPure ==
    \/ \E kw \in SUBSET Keywords : CallGenerateMockFindings(kw)
    \/ \E fs \in FindingLists, vendor_risks \in VendorRiskLists :
          CallGenerateActionPlan(fs, vendor_risks)
    \/ \E event \in EpcisEvents : CallDetectChainBreaks(event)

Next ==
    NextWF \/ NextSync \/ NextSeq \/ NextSyncAll \/ NextFetch \/ NextTenant \/ NextCancel
        \/ NextParse \/ NextAppend \/ NextPure

Spec == Init /\ [][Next]_vars

SpecWF == InitWF /\ [][NextWF]_vars

SpecSync == Init /\ [][NextSync]_vars

SpecSeq == Init /\ [][NextSeq]_vars

SpecSyncAll == Init /\ [][NextSyncAll]_vars

SpecFetch == Init /\ [][NextFetch]_vars

SpecTenant == InitTenant /\ [][NextTenant]_vars

SpecCancel == Init /\ [][NextCancel]_vars

SpecAppend == Init /\ [][NextAppend]_vars

SpecParse == Init /\ [][NextParse]_vars

SpecPure == Init /\ [][NextPure]_vars

\* The status row of fda_recalls as an earlier call left it
InitStatus ==
    /\ InitWorkflow
    /\ items = [k \in Keys |-> 0]
    /\ \E snap \in FeedSnapshots \cup {[stored |-> {}, row |-> <<>>]} :
          syncStatus = [s \in SyncSources \cup PROVIDERS |->
                           IF s = "fda_recalls" THEN snap.row ELSE <<>>]
    /\ cache = [k \in CacheKeys |-> NoCache]
    /\ procs = [p \in Procs |-> IdleProc]
    /\ lastHttp = [s \in PROVIDERS |-> 0]
    /\ clock = 2
    /\ syncCalls = 0
    /\ syncAll = [p \in Procs |-> IdleSyncAll]
    /\ fetch = IdleFetch
    /\ parsed = {}
    /\ itemRows = [k \in Keys |-> IF items[k] > 0 THEN <<1>> ELSE <<>>]
    /\ calls = NoCall

SpecStatus == InitStatus /\ [][NextStatus]_vars

\* ------------------------------------------------------------ properties
HasFinding(run_id) == \E i \in 1..Len(findings) : findings[i].run_id = run_id

HasPlan(run_id) == \E i \in 1..Len(plans) : plans[i].run_id = run_id

HasCorrelation(run_id) ==
    \E i \in 1..Len(plans) : plans[i].run_id = run_id /\ DOMAIN plans[i].correlation_data # {}

ProcessedFor(org, eid) == EvidenceFound(org, eid) /\ evidence[eid].status = "processed"

RunFor(org, eid, run_id, statuses) ==
    \E r \in runs : r.id = run_id /\ r.org = org /\ r.evidence_id = eid /\ r.status \in statuses

\* C1: an export that is not refused has found, for the requesting tenant,
\* processed evidence, a selected run in status success, at least one finding,
\* an action plan and a non-empty correlation snapshot; every export lacking
\* one of these is refused.
C1_ExportOnlyWhenComplete ==
    (resp.op = "export" /\ resp.kind # "refused") =>
        /\ ProcessedFor(resp.org, resp.eid)
        /\ RunFor(resp.org, resp.eid, resp.run_id, {"success"})
        /\ resp.rid # 0 => resp.run_id = resp.rid
        /\ HasFinding(resp.run_id)
        /\ HasPlan(resp.run_id)
        /\ HasCorrelation(resp.run_id)

C1_Witness == resp.op = "export" /\ resp.kind = "packet" /\ resp.rid = 0

ExportRefused(r) == r.op = "export" /\ r.kind = "refused"

ListedRefusals ==
    {"evidence_not_found", "evidence_not_processed", "no_workflow_run",
     "workflow_run_not_successful", "findings_missing", "action_plan_missing",
     "correlation_missing"}

\* What each refusal identifier says about the request, the earlier conditions
\* having passed (read in the state the export ran in).
RefusalMeans(r) ==
    /\ r.error = "evidence_not_found" => ~EvidenceFound(r.org, r.eid)
    /\ r.error = "evidence_not_processed" =>
          EvidenceFound(r.org, r.eid) /\ ~ProcessedFor(r.org, r.eid)
    /\ r.error = "workflow_run_not_found" =>
          /\ ProcessedFor(r.org, r.eid)
          /\ r.rid # 0
          /\ ~RunFor(r.org, r.eid, r.rid, {"success", "failed"})
    /\ r.error = "no_workflow_run" =>
          /\ ProcessedFor(r.org, r.eid)
          /\ r.rid = 0
          /\ \A id \in RunIds : ~RunFor(r.org, r.eid, id, {"success"})
    /\ r.error = "workflow_run_not_successful" =>
          /\ ProcessedFor(r.org, r.eid)
          /\ RunFor(r.org, r.eid, r.rid, {"failed"})
    /\ r.error = "findings_missing" =>
          /\ ProcessedFor(r.org, r.eid)
          /\ RunFor(r.org, r.eid, r.run_id, {"success"})
          /\ ~HasFinding(r.run_id)
    /\ r.error = "action_plan_missing" =>
          /\ ProcessedFor(r.org, r.eid)
          /\ RunFor(r.org, r.eid, r.run_id, {"success"})
          /\ HasFinding(r.run_id) /\ ~HasPlan(r.run_id)
    /\ r.error = "correlation_missing" =>
          /\ ProcessedFor(r.org, r.eid)
          /\ RunFor(r.org, r.eid, r.run_id, {"success"})
          /\ HasFinding(r.run_id) /\ HasPlan(r.run_id) /\ ~HasCorrelation(r.run_id)

\* C2 (amended): every export refusal carries the identifier of the first
\* failing condition in the order evidence_not_found, evidence_not_processed,
\* workflow_run_not_found (a run_id is given and names no run of this tenant
\* and evidence) or no_workflow_run (no run_id is given and there is no
\* successful run), workflow_run_not_successful, findings_missing,
\* action_plan_missing, correlation_missing.
C2_RefusalIsFirstFailing ==
    [][(resp' # resp /\ ExportRefused(resp')) =>
          /\ resp'.error \in ListedRefusals \cup {"workflow_run_not_found"}
          /\ RefusalMeans(resp')]_vars

C2_Witness ==
    /\ ExportRefused(resp)
    /\ resp.error = "workflow_run_not_found"
    /\ runs # {}

\* C2 as stated: every export refusal carries one of the seven listed identifiers.
C2_Original == ExportRefused(resp) => resp.error \in ListedRefusals

StatusError(status) ==
    IF status = "pending" THEN "evidence_pending"
    ELSE IF status = "processing" THEN "evidence_processing"
    ELSE "evidence_failed"

\* C3: a workflow request on evidence in status pending, processing or failed
\* is answered with the precondition error of that status and creates no
\* WorkflowRun row; no run row ever refers to such evidence.
C3_UnprocessedEvidenceRefused ==
    /\ [](\A r \in runs : evidence[r.evidence_id].status = "processed")
    /\ [](wf.pc = "running" => evidence[wf.eid].status = "processed")
    /\ [][(resp' # resp /\ resp'.op = "workflow" /\ EvidenceFound(resp'.org, resp'.eid)
             /\ evidence[resp'.eid].status \in {"pending", "processing", "failed"}) =>
          /\ resp'.kind = "refused"
          /\ resp'.error = StatusError(evidence[resp'.eid].status)
          /\ UNCHANGED <<runs, runSeq, wf, findings, plans, audit>>]_vars

C3_Witness ==
    /\ resp.op = "workflow" /\ resp.kind = "refused"
    /\ resp.error = "evidence_processing"
    /\ runs = {}

\* C4: every run in status success has at least one finding, exactly one
\* action plan, and a non-empty correlation snapshot.
C4_SuccessRunComplete ==
    \A r \in runs : r.status = "success" =>
        /\ Len(FindingsOf(r.id)) >= 1
        /\ Len(PlansOf(r.id)) = 1
        /\ DOMAIN PlansOf(r.id)[1].correlation_data # {}

C4_Witness ==
    \E r \in runs : r.status = "success" /\ Len(FindingsOf(r.id)) = 3 /\ r.findings_count = 3

\* C5: a run leaves running once, for success or failed; a run that is
\* success or failed never changes again (status, error message, counts,
\* completion time).
C5_TerminalRunsFrozen ==
    /\ [](\A r \in runs : r.status \in {"success", "failed"} /\ r.completed_at = "set")
    /\ [](\A r1, r2 \in runs : r1.id = r2.id => r1 = r2)
    /\ [][\A r \in runs : r \in runs']_vars

C5_Witness ==
    \E r1, r2 \in runs : r1.id < r2.id /\ r1.evidence_id = r2.evidence_id

\* C6 as stated: whenever a step after the creation of the run row raises,
\* the run is stored as failed with the error message and the caller gets a
\* failure result.
C6_Original ==
    (resp.op = "workflow" /\ resp.kind \in {"failed", "raised"}) =>
        /\ resp.kind = "failed"
        /\ \E r \in runs : r.id = resp.run_id /\ r.status = "failed"
                            /\ r.error_message = resp.error

\* C7: every run in status success has an audit entry workflow_run_completed
\* that refers to it.
C7_SuccessRunAudited ==
    \A r \in runs : r.status = "success" =>
        \E i \in 1..Len(audit) :
            /\ audit[i].action = "workflow_run_completed"
            /\ audit[i].entity_type = "workflow_run"
            /\ audit[i].entity_id = r.id
            /\ audit[i].org = r.org

C7_Witness ==
    \E r \in runs : r.status = "success" /\
        \E i \in 1..Len(audit) : audit[i].action = "workflow_run_completed" /\ audit[i].entity_id = r.id

Returns(p) == procs[p].pc = "status_commit" /\ procs'[p].pc = "idle"

RecordsError(row, error, now) ==
    /\ Len(row) = 1
    /\ row[1].last_error_message = Slice(error, ERROR_MESSAGE_LIMIT)
    /\ row[1].last_error_at = now
    /\ row[1].last_run_at = now

RecordsErrorTime(row, now) ==
    /\ Len(row) = 1
    /\ row[1].last_error_at = now
    /\ row[1].last_run_at = now

C9_UniqueFeedItems == \A k \in Keys : items[k] <= 1

C9_Witness ==
    \E p \in Procs : procs[p].violations > 0 /\ procs[p].persisted
                     /\ items[Key(procs[p].source, "x1")] = 1

\* C10 as stated: a persist call that met only collisions (no other database
\* fault) leaves every item of its batch stored, and its count is the number
\* of rows it added.
C10_Original ==
    \A p \in Procs : (procs[p].persisted /\ ~procs[p].faulted) =>
        /\ \A i \in 1..Len(procs[p].batch) : items[Key(procs[p].source, procs[p].batch[i])] >= 1
        /\ procs[p].new_count = Len(procs[p].batch) - procs[p].skipped - procs[p].violations

\* q is a finished call that stored its whole payload, and p started after it
\* with the same payload for the same source.
RanBefore(q, p) ==
    /\ q # p
    /\ procs[p].pc # "idle" /\ ~procs[p].threw
    /\ procs[q].pc = "idle" /\ procs[q].result.kind = "returned" /\ procs[q].result.success
    /\ procs[q].persisted /\ ~procs[q].faulted /\ procs[q].violations = 0
    /\ procs[q].source = procs[p].source
    /\ procs[q].batch = procs[p].batch
    /\ procs[q].ended <= procs[p].started

\* C11: a sync that runs after a sync of the same source with the same
\* payload adds no row to the store and returns items_added = 0.
C11_SecondSyncAddsNothing ==
    [][\A p, q \in Procs : RanBefore(q, p) =>
          /\ procs'[p].pending = {}
          /\ procs'[p].new_count = 0
          /\ (procs[p].pc = "check" /\ procs'[p].pc = "status") => items' = items
          /\ Returns(p) => (procs'[p].result.success /\ procs'[p].result.items_added = 0
                            /\ procs'[p].result.items_fetched = Len(procs[p].batch))]_vars

C11_Witness ==
    \E p, q \in Procs :
        /\ RanBefore(q, p) /\ procs[p].pc = "status" /\ procs[p].persisted
        /\ Len(procs[p].batch) = 2 /\ procs[p].batch[1] # procs[p].batch[2]
        /\ procs[p].skipped = 2 /\ procs[p].new_count = 0
        /\ procs[q].result.items_added = 2

\* ---------------------------------------------------------------- C12
SyncAllReturned(p) == syncAll[p].summary.kind = "returned"

RECURSIVE SumItemsAdded(_)
SumItemsAdded(results) ==
    IF results = <<>> THEN 0 ELSE Head(results).items_added + SumItemsAdded(Tail(results))

\* C12: in the response of a sync of all sources, sources_succeeded plus
\* sources_failed is the number of enabled sources, results holds exactly one
\* entry per enabled source, and total_items_added is the sum of items_added
\* over all the per-source results.
C12_SyncAllAccounting ==
    \A p \in Procs : SyncAllReturned(p) =>
        LET r == syncAll[p].summary
        IN  /\ r.sources_succeeded + r.sources_failed = Len(EnabledProviders)
            /\ Len(r.results) = Len(EnabledProviders)
            /\ \A n \in 1..Len(EnabledProviders) :
                  Cardinality({k \in 1..Len(r.results) :
                                  r.results[k].source = EnabledProviders[n]}) = 1
            /\ r.total_items_added = SumItemsAdded(r.results)

C12_Witness ==
    \E p \in Procs :
        /\ SyncAllReturned(p)
        /\ syncAll[p].summary.sources_succeeded = 2
        /\ syncAll[p].summary.sources_failed = 1
        /\ syncAll[p].summary.total_items_added = 3

\* ---------------------------------------------------------------- C13
\* C13: in the response of a sync of all sources, status is "ok" exactly when
\* at least one source succeeded, and degraded is true exactly when at least
\* one source failed.
C13_OverallStatus ==
    \A p \in Procs : SyncAllReturned(p) =>
        LET r == syncAll[p].summary
            ok == {k \in 1..Len(r.results) : r.results[k].success}
            ko == {k \in 1..Len(r.results) : ~r.results[k].success}
        IN  /\ r.sources_succeeded = Cardinality(ok)
            /\ r.sources_failed = Cardinality(ko)
            /\ (r.status = "ok") <=> (Cardinality(ok) >= 1)
            /\ r.degraded <=> (Cardinality(ko) >= 1)

C13_Witness ==
    \E p \in Procs :
        /\ SyncAllReturned(p)
        /\ syncAll[p].summary.status = "ok"
        /\ syncAll[p].summary.degraded
        /\ syncAll[p].summary.sources_failed = 2

\* ---------------------------------------------------------------- C14
\* C14: after any sequence of single-source syncs, successful or failed, every
\* status row has last_success_at <= last_run_at and last_error_at <=
\* last_run_at whenever the field is set (0 stands for an unset field).
C14_StatusTimesOrdered ==
    \A s \in DOMAIN syncStatus : \A k \in 1..Len(syncStatus[s]) :
        LET row == syncStatus[s][k]
        IN  /\ row.last_success_at # 0 => row.last_success_at <= row.last_run_at
            /\ row.last_error_at # 0 => row.last_error_at <= row.last_run_at

C14_Witness ==
    \E s \in DOMAIN syncStatus :
        /\ Len(syncStatus[s]) = 1
        /\ syncStatus[s][1].last_success_at # 0
        /\ syncStatus[s][1].last_error_at # 0
        /\ syncStatus[s][1].last_success_at < syncStatus[s][1].last_run_at

\* ---------------------------------------------------------------- C15
\* The fields _update_sync_status assigns in call p are the ones the row holds.
WrittenBy(p, row) ==
    LET pr == procs[p]
        success == pr.error = "none"
    IN  /\ row.last_run_at = pr.now
        /\ row.last_http_status = pr.http
        /\ row.items_fetched = (IF success THEN Len(pr.batch) ELSE 0)
        /\ row.items_saved = (IF success THEN pr.new_count ELSE 0)
        /\ IF success
           THEN row.last_success_at = pr.now /\ row.last_error_at = 0
                /\ row.last_error_message = "none"
           ELSE row.last_error_at = pr.now
                /\ row.last_error_message = Slice(pr.error, ERROR_MESSAGE_LIMIT)

\* C15: for any interleaving of concurrent single-source syncs of one source,
\* once the calls have returned the store holds exactly one status row for the
\* source and its fields are those written by a single call (the last writer,
\* never a mixture of two calls); every call has returned its result.
C15_Original ==
    \A s \in ModelledProviders :
        (/\ \A p \in Procs : procs[p].pc = "idle"
         /\ \E p \in Procs : procs[p].source = s /\ procs[p].status_written)
        => /\ Len(syncStatus[s]) = 1
           /\ \E p \in Procs : /\ procs[p].source = s
                               /\ procs[p].status_written
                               /\ procs[p].result.kind = "returned"
                               /\ WrittenBy(p, syncStatus[s][1])

\* ---------------------------------------------------------------- C16
\* sync_provider is entered by p for a registered source.
Enters(p) ==
    /\ procs[p].pc = "idle"
    /\ procs'[p].pc # "idle"
    /\ procs'[p].source \in PROVIDERS

\* C16: when the cache is unreachable, raises on the read or the write, or
\* holds a value that does not parse, the sync fetches from the provider, goes
\* on exactly as a sync that found the cache empty (success, items_fetched and
\* items_added come from the fetch and the store alone), and a sync that fails
\* has a cause other than the cache: the provider raised or the database did.
C16_CacheFailureIsAMiss ==
    [][\A p \in Procs :
          /\ (Enters(p) /\ procs'[p].cache_fail # "none") =>
                /\ procs'[p].called
                /\ ~procs'[p].cached
                /\ procs'[p].pc = (IF procs'[p].threw THEN "status" ELSE "check")
                /\ procs'[p].error = (IF procs'[p].threw THEN "HTTP 503" ELSE "none")
          /\ (Returns(p) /\ procs[p].cache_fail # "none") =>
                /\ ~procs'[p].result.cached
                /\ procs'[p].result.success <=> (~procs[p].threw /\ procs[p].persisted)
                /\ procs'[p].result.success =>
                      /\ procs'[p].result.items_fetched = Len(procs[p].batch)
                      /\ procs'[p].result.items_added = procs[p].new_count
                /\ ~procs'[p].result.success => (procs[p].threw \/ procs[p].faulted)]_vars

C16_Witness ==
    \E p \in Procs :
        /\ procs[p].pc = "idle"
        /\ procs[p].cache_fail = "corrupt"
        /\ procs[p].result.success
        /\ procs[p].result.items_added > 0

\* ---------------------------------------------------------------- C17
\* C17: a sync with force = false that finds a cached value uses the cached
\* items, reports cached = true and does not call the provider; a sync with
\* force = true never uses the cache and always calls the provider; after a
\* successful provider fetch the fetched items are the value under the key
\* watchtower:cache:{source_id}, unless the cache refused the write (C16), and
\* no other key is written.
C17_CachePolicy ==
    [][\A p \in Procs : Enters(p) =>
          LET key == "watchtower:cache:" \o procs'[p].source
          IN  /\ (~procs'[p].force /\ procs'[p].cache_fail = "none" /\ cache[key].kind = "hit") =>
                    /\ procs'[p].cached /\ ~procs'[p].called
                    /\ procs'[p].batch = cache[key].batch
                    /\ cache' = cache
              /\ procs'[p].force => (procs'[p].called /\ ~procs'[p].cached)
              /\ procs'[p].cached <=> ~procs'[p].called
              /\ (procs'[p].called /\ ~procs'[p].threw /\ procs'[p].cache_fail = "none") =>
                    cache'[key] = [kind |-> "hit", batch |-> procs'[p].batch,
                                   rev |-> procs'[p].rev]
              /\ \A k \in DOMAIN cache \ {key} : cache'[k] = cache[k]]_vars

C17_Witness ==
    \E p, q \in Procs :
        /\ procs[p].pc = "idle" /\ procs[p].called /\ ~procs[p].force /\ ~procs[p].threw
        /\ procs[q].pc = "check" /\ procs[q].cached /\ ~procs[q].force
        /\ procs[q].source = procs[p].source
        /\ procs[q].batch = procs[p].batch /\ Len(procs[q].batch) > 0
        /\ cache["watchtower:cache:fda_recalls"].kind = "hit"

\* ---------------------------------------------------------------- C18
\* A source is failing: it has no recorded run, or its latest recorded error
\* is not followed by a success.
Failing(s) ==
    \/ Len(syncStatus[s]) = 0
    \/ syncStatus[s][1].last_run_at = 0
    \/ /\ syncStatus[s][1].last_error_at # 0
       /\ ~(syncStatus[s][1].last_success_at > syncStatus[s][1].last_error_at)

\* C18: whenever the health is read, overall_status is "down" exactly when
\* every required enabled source is failing, "degraded" exactly when at least
\* one required source is failing but not all of them, and "healthy" otherwise.
C18_HealthOverall ==
    LET health == GetHealthStatus(syncStatus).overall_status
        failing == {s \in RequiredSources : Failing(s)}
    IN  /\ (health = "down") <=> (failing = RequiredSources)
        /\ (health = "degraded") <=> (failing # {} /\ failing # RequiredSources)
        /\ (health = "healthy") <=> (failing = {})

C18_Witness ==
    /\ GetHealthStatus(syncStatus).overall_status = "degraded"
    /\ GetHealthStatus(syncStatus).sources["fda_recalls"] = "ok"
    /\ GetHealthStatus(syncStatus).sources["fda_shortages"] = "error"
    /\ GetHealthStatus(syncStatus).sources["fda_warning_letters"] = "pending"

\* ---------------------------------------------------------------- C19
\* The positions in the log of the requests against one endpoint
RequestsTo(endpoint) == {n \in 1..Len(fetch.log) : fetch.log[n].endpoint = endpoint}

Endpoints == {"warning_letters", "shortages_primary", "shortages_fallback",
              "recalls_primary", "recalls_rss_1", "recalls_rss_2"}

\* C19: a provider fetch makes at most 3 attempts against an endpoint and
\* waits 1 s and then 2 s between attempts; a further attempt against an
\* endpoint follows only a network error, a 429 or a 5xx, and after any other
\* 4xx the endpoint is not requested again; the fetch ends, with items or
\* with an error, within the attempts its endpoints allow.
C19_Original ==
    /\ \A e \in Endpoints : Cardinality(RequestsTo(e)) <= 3
    /\ fetch.waits \in {<<>>, <<1>>, <<1, 2>>}
    /\ \A e \in Endpoints : \A n, k \in RequestsTo(e) :
          (n < k /\ ~\E j \in RequestsTo(e) : n < j /\ j < k) =>
              fetch.log[n].reply \in {"neterr", "http429", "http503"}
    /\ Len(fetch.log) <= 3 * Cardinality(Endpoints)
    /\ Len(fetch.log) = 3 * Cardinality(Endpoints) => fetch.pc \in {"returned", "raised"}

\* ---------------------------------------------------------------- C20
PrimaryReplies == {fetch.log[n].reply : n \in RequestsTo("recalls_primary")}

\* The requests of the fallback, in the order they were made
FallbackLog == SelectSeq(fetch.log, LAMBDA r : r.endpoint # "recalls_primary")

RecallsPrimaryOver == fetch.provider = "fda_recalls" /\ fetch.pc \notin {"idle", "running"}

\* C20, as the spec states it: the fallback is called exactly when the primary
\* returned a 4xx other than 429 or all primary attempts were used up without
\* a 2xx, and never when the primary answered 2xx; the fallback URLs are tried
\* in list order, and the fetch fails only when the fallback yields no items.
C20_Original ==
    RecallsPrimaryOver =>
        /\ fetch.fallback <=>
              \/ "http404" \in PrimaryReplies
              \/ /\ Cardinality(RequestsTo("recalls_primary")) = 3
                 /\ PrimaryReplies \cap {"ok", "ok_empty", "ok_badbody"} = {}
        /\ PrimaryReplies \cap {"ok", "ok_empty", "ok_badbody"} # {} => ~fetch.fallback
        /\ \A n \in 1..Len(FallbackLog) :
              FallbackLog[n].endpoint = <<"recalls_rss_1", "recalls_rss_2">>[n]
        /\ fetch.pc = "raised" =>
              (fetch.fallback /\ \A n \in 1..Len(FallbackLog) : FallbackLog[n].reply # "ok")

\* C20: the recalls fetch calls the RSS fallback exactly when the primary
\* returned a 4xx other than 429 or all 3 primary attempts were used up
\* without a 2xx whose body parsed; when the primary answers 2xx with a body
\* that parses the fallback is never called; the fallback URLs are tried in
\* list order, and the fetch fails only when the fallback yields no items.
C20_FallbackWhenPrimaryUnusable ==
    RecallsPrimaryOver =>
        /\ fetch.fallback <=>
              \/ "http404" \in PrimaryReplies
              \/ /\ Cardinality(RequestsTo("recalls_primary")) = 3
                 /\ PrimaryReplies \cap {"ok", "ok_empty"} = {}
        /\ PrimaryReplies \cap {"ok", "ok_empty"} # {} => ~fetch.fallback
        /\ \A n \in 1..Len(FallbackLog) :
              FallbackLog[n].endpoint = <<"recalls_rss_1", "recalls_rss_2">>[n]
        /\ fetch.pc = "raised" =>
              (fetch.fallback /\ \A n \in 1..Len(FallbackLog) : FallbackLog[n].reply # "ok")

C20_Witness ==
    /\ fetch.provider = "fda_recalls"
    /\ fetch.pc = "returned"
    /\ fetch.fallback
    /\ PrimaryReplies = {"ok_badbody"}
    /\ Len(FallbackLog) = 2
    /\ fetch.items = "some"

\* ---------------------------------------------------------------- C27
\* C27: every RunWorkflow that passes the preconditions works on a run whose
\* id differs from the id of every run stored before, also when the evidence
\* already has success or failed runs; the rows of earlier runs, and their
\* finding and plan rows, are the same after the call as before it.
C27_FreshRunEachCall ==
    [][ (wf.pc = "running" /\ wf'.pc = "idle") =>
          /\ \A r \in runs : r.id # wf.run_id /\ r \in runs'
          /\ \A r \in runs' \ runs : r.id = wf.run_id /\ r.evidence_id = wf.eid
          /\ Cardinality(runs' \ runs) <= 1
          /\ \A r \in runs : /\ FindingsOf(r.id)' = FindingsOf(r.id)
                              /\ PlansOf(r.id)' = PlansOf(r.id) ]_vars

\* A second run committed for evidence that already had a success and a failed run
C27_Witness ==
    /\ \E a, b \in runs : /\ a.id # b.id
                          /\ a.evidence_id = b.evidence_id
                          /\ a.status = "success" /\ b.status = "failed"
                          /\ resp.op = "workflow" /\ resp.run_id \in {a.id, b.id}
                          /\ resp.kind \in {"success", "failed"}

\* ---------------------------------------------------------------- C28
\* C28: a stored run with status failed has no finding row and no plan row
\* with its id, and no workflow_run_completed audit entry names it.
C28_Original ==
    \A r \in runs :
        r.status = "failed" =>
            /\ Len(FindingsOf(r.id)) = 0
            /\ Len(PlansOf(r.id)) = 0
            /\ ~\E i \in 1..Len(audit) :
                   /\ audit[i].action = "workflow_run_completed"
                   /\ audit[i].entity_id = r.id

\* ---------------------------------------------------------------- C30
\* The evidence exists and belongs to another organization than the caller's
ForeignEvidence(org, eid) == eid \in 1..Len(evidence) /\ evidence[eid].org # org

NoSuchEvidence(eid) == eid \notin 1..Len(evidence)

\* C30: a workflow or export request for evidence of another organization is
\* answered as a request for evidence that does not exist is (refused with
\* evidence_not_found, nothing written); an export that returns a packet
\* renders a run of the caller's organization and of the evidence in the
\* request, and an export naming the run of another organization or another
\* evidence is refused.
C30_TenantIsolation ==
    [][ (resp' # resp /\ resp'.op \in {"workflow", "export"}) =>
          /\ (ForeignEvidence(resp'.org, resp'.eid) \/ NoSuchEvidence(resp'.eid)) =>
                /\ resp'.kind = "refused" /\ resp'.error = "evidence_not_found"
                /\ resp'.run_id = 0
                /\ UNCHANGED <<evidence, runs, runSeq, findings, plans, audit, wf>>
          /\ (resp'.op = "export" /\ resp'.kind = "packet") =>
                \E r \in runs : /\ r.id = resp'.run_id
                                /\ r.org = resp'.org
                                /\ r.evidence_id = resp'.eid
          /\ (resp'.op = "export" /\ resp'.rid # 0
                /\ \E r \in runs : /\ r.id = resp'.rid
                                    /\ (r.org # resp'.org \/ r.evidence_id # resp'.eid)) =>
                /\ resp'.kind = "refused"
                /\ resp'.run_id = 0
                /\ UNCHANGED audit ]_vars

\* An export by the owner of evidence 2 that names the successful run of
\* evidence 1 was refused, while another tenant's successful run is stored too
C30_Witness ==
    /\ resp.op = "export" /\ resp.kind = "refused" /\ resp.rid # 0
    /\ EvidenceFound(resp.org, resp.eid)
    /\ \E r \in runs : /\ r.id = resp.rid /\ r.status = "success"
                        /\ r.org = resp.org /\ r.evidence_id # resp.eid
    /\ \E r \in runs : r.org # resp.org /\ r.status = "success"

\* ---------------------------------------------------------------- C29
\* The calls that have returned, when every call made so far is among them
ReturnedCalls == {p \in Procs : procs[p].pc = "idle" /\ procs[p].result.kind = "returned"}

RECURSIVE SumAdded(_)
SumAdded(P) ==
    IF P = {} THEN 0
    ELSE LET p == CHOOSE x \in P : TRUE
         IN  procs[p].result.items_added + SumAdded(P \ {p})

\* C29 as stated: starting from an empty store, once every sync call made so
\* far has returned, the number of stored feed items is the sum of items_added
\* over the returned results.
C29_Original ==
    ((\A p \in Procs : procs[p].pc = "idle") /\ Cardinality(ReturnedCalls) = syncCalls) =>
        TotalFeedItems = SumAdded(ReturnedCalls)

\* ---------------------------------------------------------------- C25
\* C25: the status write never raises to the sync call: when it fails (its
\* query or its commit), nothing of it stays in the status table, and the
\* call still returns a result that carries the outcome of its fetch and
\* persist: success and error text of the fetch, the fetched count and the
\* count of the rows the persist reported.
C25_StatusWriteNeverRaises ==
    [][\A p \in Procs : Returns(p) =>
          /\ procs'[p].result.kind = "returned"
          /\ procs'[p].result.success = (procs[p].error = "none")
          /\ procs'[p].result.error_message = procs[p].error
          /\ procs'[p].result.items_added =
                (IF procs[p].persisted THEN procs[p].new_count ELSE 0)
          /\ procs'[p].result.items_fetched =
                (IF procs[p].persisted \/ procs[p].i > 0 THEN Len(procs[p].batch) ELSE 0)
          /\ ~procs'[p].status_written => syncStatus' = syncStatus]_vars

\* A sync that stored two items returned them although its status write failed
C25_Witness ==
    \E p \in Procs :
        /\ procs[p].pc = "idle" /\ procs[p].called /\ ~procs[p].status_written
        /\ procs[p].result.kind = "returned" /\ procs[p].result.success
        /\ procs[p].result.items_added = 2
        /\ syncStatus[procs[p].source] = <<>>

\* ---------------------------------------------------------------- C24
\* C24 as stated: a sync call that was cancelled while suspended has its sync
\* recorded as failed with the reason "cancelled" in the source's status row,
\* and a call cancelled before its first persistence has stored no feed item.
C24_Original ==
    \A p \in Procs : procs[p].result.kind = "cancelled" =>
        /\ Len(syncStatus[procs[p].source]) = 1
        /\ syncStatus[procs[p].source][1].last_error_message = "cancelled"
        /\ syncStatus[procs[p].source][1].last_error_at # 0
        /\ procs[p].new_count = 0 /\ procs[p].pending = {}

\* ---------------------------------------------------------------- C23
\* C23 as stated: when the write of the audit entry fails, the audited
\* operation still succeeds: the workflow ends with a successful run, and the
\* export returns the packet.
C23_Original ==
    /\ (resp.op = "workflow" /\ resp.error = "py_audit") =>
          /\ resp.kind = "success"
          /\ \E r \in runs : r.id = resp.run_id /\ r.status = "success"
    /\ (resp.op = "export" /\ resp.error = "db_commit") => resp.kind = "packet"

\* ---------------------------------------------------------------- C26
\* The texts export_audit_packet writes where a value is empty or absent
Placeholders ==
    {"None specified", "Unassigned", "Not set",
     "No significant correlations detected between Watchtower data and evidence.",
     "_No specific actions required based on findings._"}

HasUnknown(text) == \E i \in 1..Len(text) : text[i] = "Unknown"

\* The upstream record names no manufacturer
NoManufacturer(r) ==
    \/ r.adapter = "fda_recalls" /\ "recalling_firm" \notin DOMAIN r.record
    \/ r.adapter = "fda_shortages" /\ "company_name" \notin DOMAIN r.record

\* C21 as stated: in every feed item an adapter produces, vendor_name is
\* absent when the upstream record names no manufacturer, and the word
\* "Unknown" is in none of vendor_name, status and title.
C21_Original ==
    \A r \in parsed :
        /\ NoManufacturer(r) => r.item.vendor_name = None
        /\ ~HasUnknown(r.item.vendor_name)
        /\ ~HasUnknown(r.item.status)
        /\ ~HasUnknown(r.item.title)

\* ---------------------------------------------------------------- C22
\* The adapter made the id itself (the record carries no upstream id)
Synthesized(r) ==
    \/ r.adapter = "fda_recalls" /\ "recall_number" \notin DOMAIN r.record
    \/ r.adapter = "fda_shortages" /\ "package_ndc" \notin DOMAIN r.record
    \/ r.adapter = "fda_warning_letters"

\* C22 as stated: an upstream record ingested at two different times gives
\* one feed item (both parses yield the same external_id), and two items whose
\* ids the adapter synthesized agree on the id whenever they agree on source,
\* url, published_at and title.
C22_Original ==
    \A a, b \in parsed :
        /\ (a.adapter = b.adapter /\ DOMAIN a.record = DOMAIN b.record
                /\ a.record = b.record) => a = b
        /\ (Synthesized(a) /\ Synthesized(b) /\ a.item.source = b.item.source
                /\ a.item.url = b.item.url /\ a.item.published_at = b.item.published_at
                /\ a.item.title = b.item.title) =>
              a.item.external_id = b.item.external_id

\* ---------------------------------------------------------------- C31
\* C31 as stated: the audit section of an exported packet holds only entries
\* of the exporting tenant that are about the exported evidence or about the
\* exported run.
C31_Original ==
    (resp.op = "export" /\ resp.kind = "packet") =>
        \A i \in 1..Len(resp.packet.audit_log) :
            LET e == resp.packet.audit_log[i]
            IN  /\ e.org = resp.org
                /\ \/ e.entity_type = "evidence" /\ e.entity_id = resp.eid
                   \/ e.entity_type = "workflow_run" /\ e.entity_id = resp.run_id

\* ---------------------------------------------------------------- C32
SuccessRuns(org, eid) == {r \in RunsOf(org, eid) : r.status = "success"}

\* C32: an export without run_id renders the successful run of the evidence
\* that was created last; a newer failed run neither blocks the export nor is
\* rendered; with no successful run the export is refused with
\* no_workflow_run. A packet therefore implies a successful run of that
\* evidence.
C32_LatestSuccessfulRun ==
    [][ (resp' # resp /\ resp'.op = "export" /\ resp'.rid = 0
           /\ ProcessedFor(resp'.org, resp'.eid)) =>
          /\ SuccessRuns(resp'.org, resp'.eid) = {} =>
                resp'.kind = "refused" /\ resp'.error = "no_workflow_run"
          /\ SuccessRuns(resp'.org, resp'.eid) # {} =>
                /\ resp'.error \notin {"no_workflow_run", "workflow_run_not_successful"}
                /\ \E r \in SuccessRuns(resp'.org, resp'.eid) :
                      /\ r.id = resp'.run_id
                      /\ \A q \in SuccessRuns(resp'.org, resp'.eid) : q.id <= r.id
          /\ resp'.kind = "packet" => SuccessRuns(resp'.org, resp'.eid) # {} ]_vars

\* A packet of the older, successful run was exported although the newest run
\* of the evidence failed
C32_Witness ==
    /\ resp.op = "export" /\ resp.kind = "packet" /\ resp.rid = 0
    /\ \E q \in RunsOf(resp.org, resp.eid) : q.status = "failed" /\ q.id > resp.run_id

\* ---------------------------------------------------------------- C33
\* C33: a refused export and a refused workflow request leave evidence, runs,
\* findings, action plans and the audit log as they were; the audit log gains
\* an audit_packet_exported entry only in a step that returns a packet, and
\* such a step adds exactly one, about the rendered run.
C33_RefusalsWriteNothing ==
    [][ /\ (resp' # resp /\ resp'.kind = "refused") =>
              UNCHANGED <<evidence, runs, runSeq, findings, plans, audit>>
        /\ (resp' # resp /\ resp'.op = "export" /\ resp'.kind = "packet") =>
              ExportedCount' = ExportedCount + 1
        /\ ExportedCount' # ExportedCount =>
              /\ resp'.op = "export" /\ resp'.kind = "packet"
              /\ ExportedCount' = ExportedCount + 1
              /\ Len(audit') = Len(audit) + 1
              /\ audit'[Len(audit')] =
                     AuditEntry(resp'.org, "audit_packet_exported", "workflow_run",
                                resp'.run_id)
              /\ SubSeq(audit', 1, Len(audit)) = audit ]_vars

\* A workflow request was refused after a packet had been exported; the log
\* still holds the one entry of that export
C33_Witness ==
    /\ resp.op = "workflow" /\ resp.kind = "refused"
    /\ ExportedCount = 1
    /\ runs # {}

\* ---------------------------------------------------------------- C34
\* Call p commits its status write in this step.
StatusCommitted(p) ==
    /\ procs[p].pc = "status_commit" /\ procs'[p].pc = "idle"
    /\ procs'[p].status_written

LastSuccess(rows) == IF Len(rows) = 0 THEN 0 ELSE rows[1].last_success_at

\* C34: a committed status write of a sync of source S leaves the row and the
\* health report describing that run. After a success the error time and
\* message are cleared and S is reported ok; after a failure last_success_at
\* keeps its value, the message is the error cut at 500 characters, and S is
\* reported as error; S stays so until a successful sync commits its status.
C34_Original ==
    [][ /\ \A p \in Procs : StatusCommitted(p) =>
              LET s == procs[p].source
                  row == syncStatus'[s][1]
              IN  /\ Len(syncStatus'[s]) = 1
                  /\ row.last_run_at = procs[p].now
                  /\ procs[p].error = "none" =>
                        /\ row.last_success_at = procs[p].now
                        /\ row.last_error_at = 0
                        /\ row.last_error_message = "none"
                        /\ SourceStatus(syncStatus'[s]) = "ok"
                        /\ s \in RequiredSources =>
                              GetHealthStatus(syncStatus').sources[s] = "ok"
                  /\ procs[p].error # "none" =>
                        /\ row.last_success_at = LastSuccess(syncStatus[s])
                        /\ row.last_error_at = procs[p].now
                        /\ Chars(row.last_error_message) <= ERROR_MESSAGE_LIMIT
                        /\ \/ row.last_error_message = procs[p].error
                           \/ /\ Chars(procs[p].error) > ERROR_MESSAGE_LIMIT
                              /\ Chars(row.last_error_message) = ERROR_MESSAGE_LIMIT
                        /\ SourceStatus(syncStatus'[s]) = "error"
                        /\ s \in RequiredSources =>
                              /\ GetHealthStatus(syncStatus').sources[s] = "error"
                              /\ ~GetHealthStatus(syncStatus').all_sources_healthy
        /\ \A s \in DOMAIN syncStatus :
              (SourceStatus(syncStatus[s]) = "error"
                 /\ SourceStatus(syncStatus'[s]) # "error") =>
                  \E p \in Procs : /\ StatusCommitted(p)
                                    /\ procs[p].source = s
                                    /\ procs[p].error = "none" ]_vars

\* ---------------------------------------------------------------- C35
\* The evidence a stored action plan belongs to (0 when its run is not stored)
EvidenceOfPlan(plan) ==
    IF \E r \in runs : r.id = plan.run_id
    THEN (CHOOSE r \in runs : r.id = plan.run_id).evidence_id
    ELSE 0

\* C35: the correlation builder is a function of its inputs. The workflow
\* steps change neither the evidence text, the extractor's findings, the
\* vendor registry nor the feed tables, so any two correlations stored for
\* the same evidence agree on watchtower_snapshot, vendor_matches and
\* narrative.
C35_Original ==
    \A i, j \in 1..Len(plans) :
        (/\ DOMAIN plans[i].correlation_data # {}
         /\ DOMAIN plans[j].correlation_data # {}
         /\ EvidenceOfPlan(plans[i]) # 0
         /\ EvidenceOfPlan(plans[i]) = EvidenceOfPlan(plans[j]))
        => /\ plans[i].correlation_data.watchtower_snapshot
                = plans[j].correlation_data.watchtower_snapshot
           /\ plans[i].correlation_data.vendor_matches
                = plans[j].correlation_data.vendor_matches
           /\ plans[i].correlation_data.narrative = plans[j].correlation_data.narrative

\* ---------------------------------------------------------------- C36
\* C36: a stored feed item is never updated or deleted by a sync. Whatever
\* the content of the items a sync fetches, every stored row stays in the
\* table with the content it was inserted with.
C36_StoredItemsFrozen ==
    [][ \A k \in Keys :
          /\ Len(itemRows'[k]) >= Len(itemRows[k])
          /\ SubSeq(itemRows'[k], 1, Len(itemRows[k])) = itemRows[k] ]_vars

\* A finished sync that inserted nothing fetched a key whose stored row has
\* another content revision than the fetched item
C36_Witness ==
    \E p \in Procs :
        /\ procs[p].pc = "idle" /\ procs[p].result.kind = "returned"
        /\ procs[p].new_count = 0 /\ procs[p].skipped > 0
        /\ \E i \in 1..Len(procs[p].batch) :
              LET rows == itemRows[Key(procs[p].source, procs[p].batch[i])]
              IN  Len(rows) = 1 /\ rows[1] # procs[p].rev

\* ---------------------------------------------------------------- C37
StatusMoves ==
    {<<"pending", "processing">>, <<"processing", "processed">>, <<"processing", "failed">>}

Walks(path) ==
    /\ path[1] = "pending"
    /\ \A j \in 1..(Len(path) - 1) : <<path[j], path[j + 1]>> \in StatusMoves

\* C37: Evidence.status moves only pending -> processing -> processed or
\* pending -> processing -> failed: an upload walks that path before it
\* commits the row, and no step changes the status of a stored row, so
\* nothing leaves processed or failed. RunWorkflow and ExportAuditPacket go
\* past their checks only for processed evidence.
C37_StatusLifecycle ==
    [][ /\ \A i \in 1..Len(evidence) :
              /\ i <= Len(evidence')
              /\ evidence'[i].status # evidence[i].status =>
                    <<evidence[i].status, evidence'[i].status>> \in StatusMoves
        /\ \A i \in (Len(evidence) + 1)..Len(evidence') :
              (evidence'[i].source = "copilot"
                 /\ evidence'[i].status \in {"processed", "failed"}) =>
                  LET path == UploadStatusPath(evidence'[i].doc)
                  IN  Walks(path) /\ evidence'[i].status = path[Len(path)]
        /\ (wf.pc = "idle" /\ wf'.pc = "running") => ProcessedFor(wf'.org, wf'.eid)
        /\ (resp' # resp /\ resp'.op \in {"workflow", "export"}
               /\ resp'.kind # "refused") => ProcessedFor(resp'.org, resp'.eid) ]_vars

\* An upload whose extraction failed is stored as failed, and a workflow
\* request for it was refused
C37_Witness ==
    /\ resp.op = "workflow" /\ resp.kind = "refused"
    /\ resp.eid \in 1..Len(evidence)
    /\ evidence[resp.eid].org = resp.org
    /\ evidence[resp.eid].source = "copilot"
    /\ evidence[resp.eid].status = "failed"

\* ---------------------------------------------------------------- C38
Min(a, b) == IF a < b THEN a ELSE b

WithSeverity(fs, sev) == SelectSeq(fs, LAMBDA f : f.severity = sev)

WithTitleHead(acts, head) == SelectSeq(acts, LAMBDA a : a.title[1] = head)

\* C38: the action plan holds one HIGH action for each of the first three
\* HIGH findings and no other HIGH action, one MEDIUM action for each of the
\* first two MEDIUM findings, the supply-chain action exactly when vendor
\* matches were passed, and exactly one LOW documentation action; every action
\* has an owner and a deadline; owners and deadlines are the sets of the
\* actions' owners and deadlines.
C38_ActionPlanShape ==
    calls.fn = "generate_action_plan" =>
        LET fs == calls.args[1]
            vendor_risks == calls.args[2]
            acts == calls.result.top_actions
            high == WithSeverity(fs, "HIGH")
            medium == WithSeverity(fs, "MEDIUM")
            investigate == WithTitleHead(acts, "Investigate")
            review == WithTitleHead(acts, "Review")
            supply == WithTitleHead(acts, "Vendor Risk Mitigation")
            document == SelectSeq(acts, LAMBDA a : a.priority = "LOW")
        IN  /\ SelectSeq(acts, LAMBDA a : a.priority = "HIGH") = investigate
            /\ Len(investigate) = Min(Len(high), 3)
            /\ \A i \in 1..Len(investigate) : investigate[i].title[2] = high[i].title
            /\ Len(review) = Min(Len(medium), 2)
            /\ \A i \in 1..Len(review) :
                  review[i].priority = "MEDIUM" /\ review[i].title[2] = medium[i].title
            /\ Len(supply) = (IF Len(vendor_risks) > 0 THEN 1 ELSE 0)
            /\ Len(document) = 1
            /\ document[1].title = <<"Document Remediation Actions">>
            /\ Len(acts) = Len(investigate) + Len(review) + Len(supply) + 1
            /\ \A i \in 1..Len(acts) : acts[i].owner # "" /\ acts[i].deadline # ""
            /\ calls.result.owners = {acts[i].owner : i \in 1..Len(acts)}
            /\ calls.result.deadlines = {acts[i].deadline : i \in 1..Len(acts)}

\* A plan for four HIGH findings and a vendor match: three HIGH actions, the
\* supply-chain action and the documentation action
C38_Witness ==
    /\ calls.fn = "generate_action_plan"
    /\ Len(WithSeverity(calls.args[1], "HIGH")) = 4
    /\ Len(calls.args[2]) = 1
    /\ Len(calls.result.top_actions) = 5

\* ---------------------------------------------------------------- C39
\* C39: the findings extractor returns at least 3 and at most 10 findings for
\* every text, and the result holds both general findings exactly when the
\* keywords gave fewer than 3 findings.
C39_Original ==
    calls.fn = "generate_mock_findings" =>
        LET keyword == KeywordFindings(calls.args[1])
            titles == {calls.result[i].title : i \in 1..Len(calls.result)}
        IN  /\ Len(calls.result) >= 3
            /\ Len(calls.result) <= 10
            /\ ({"General Document Compliance Review",
                  "Record Retention Verification"} \subseteq titles)
                   <=> (Len(keyword) < 3)

\* ---------------------------------------------------------------- C40
\* The positions of the events that list the EPC, in order
Appearances(events, epc) ==
    SelectSeq([i \in 1..Len(events) |-> i], LAMBDA i : epc \in events[i].epcList)

ObjectAppearances(events, epc) ==
    SelectSeq(Appearances(events, epc), LAMBDA i : events[i].eventType = "ObjectEvent")

Earlier(t, u) == IsDatetime(t) /\ IsDatetime(u) /\ t[2] < u[2]

Reported(issues, field_path, epc, i) ==
    \E x \in issues : /\ x.type = "chain_break" /\ x.field_path = field_path
                      /\ x.epc = epc /\ x.event_index = i - 1

\* The EPC first appears in an ObjectEvent with action ADD.
Commissioned(events, epc) ==
    LET app == Appearances(events, epc)
    IN  app # <<>> => events[app[1]].eventType = "ObjectEvent" /\ events[app[1]].action = "ADD"

TimeGoesBack(events, epc, k) ==
    LET app == Appearances(events, epc)
    IN  Earlier(events[app[k]].eventTime, events[app[k - 1]].eventTime)

DeletedAgain(events, epc, k) ==
    LET app == Appearances(events, epc)
    IN  events[app[k]].action = "DELETE" /\ events[app[k - 1]].action = "DELETE"

\* C40: detect_chain_breaks reports nothing for a sequence in which every EPC
\* first appears in an ObjectEvent with action ADD, no event of an EPC is
\* earlier than the EPC's previous event and no EPC is deleted twice in a row;
\* it reports a chain break for each EPC whose first ObjectEvent has an action
\* other than ADD, for each event earlier than the previous event of the same
\* EPC, and for each DELETE directly after a DELETE of the same EPC.
C40_Original ==
    calls.fn = "detect_chain_breaks" =>
        LET events == calls.args
            issues == calls.result
        IN  /\ (\A epc \in EPCs :
                  /\ Commissioned(events, epc)
                  /\ \A k \in 2..Len(Appearances(events, epc)) :
                        ~TimeGoesBack(events, epc, k) /\ ~DeletedAgain(events, epc, k))
                => issues = {}
            /\ \A epc \in EPCs :
                  LET obj == ObjectAppearances(events, epc)
                  IN  (obj # <<>> /\ events[obj[1]].action # "ADD")
                         => Reported(issues, "epcList", epc, obj[1])
            /\ \A epc \in EPCs : \A k \in 2..Len(Appearances(events, epc)) :
                  /\ TimeGoesBack(events, epc, k)
                        => Reported(issues, "eventTime", epc, Appearances(events, epc)[k])
                  /\ DeletedAgain(events, epc, k)
                        => Reported(issues, "action", epc, Appearances(events, epc)[k])

====
